---------------------------- MODULE RTGraphProofs ----------------------------
(***************************************************************************)
(* Theorems about the server and its browsers, for every set of series,    *)
(* times, browsers and websockets and for buffers of every size.           *)
(*                                                                         *)
(* The broker and the recorder inside are refined by what happens around   *)
(* them: every step is a step of theirs or leaves them alone.  What        *)
(* BrokerProofs and RecorderProofs show of them holds here, then, and the  *)
(* inductive invariant of RTGraph rests on it.  That invariant has a part  *)
(* for every websocket and one for every browser.  A step either belongs   *)
(* to one subscription, and then leaves the broker's messages, the table   *)
(* and the other subscriptions alone, or it leaves all subscriptions       *)
(* alone; what was true of one before is still true of it because messages *)
(* and rows are only added.                                                *)
(*                                                                         *)
(* What the steps do comes first, the theorems follow at the end.          *)
(***************************************************************************)
EXTENDS RTGraph, Integers, Lemmas

USE RTGraphAssumption

-----------------------------------------------------------------------------
(***************************************************************************)
(* The broker.                                                             *)
(***************************************************************************)
\* A step leaves the broker alone or is one of these.
LEMMA BrokerSteps ==
  ASSUME Next, ~ UNCHANGED brokerVars
  PROVE  \/ B!Publish \/ B!Register \/ B!TakeMessage
         \/ \E c \in Conn \cup {DbCh} : B!Offer(c) \/ B!Subscribe(c) \/ B!Receive(c)
<1>1. ASSUME NEW c \in Conn, Subscribe(c)
      PROVE  B!Subscribe(c) \/ B!Receive(c)
  BY <1>1, Zenon DEF Subscribe, SendHello, Load, Refuse, SendError, SendInitial, Join,
              TakeLive, SendLive
<1>2. ASSUME NEW v \in Viewer, OnMessage(v) \/ OnClose(v) PROVE FALSE
  BY <1>2, Zenon DEF OnMessage, OnClose
<1>3. ASSUME NEW v \in Viewer, NEW c \in Conn, Connect(v, c) PROVE FALSE
  BY <1>3 DEF Connect
<1> QED BY <1>1, <1>2, <1>3
        DEF Next, CreateValue, BrokerStep, DbSubscribe, DbTake, DbInsert, WriterStep

\* Every step is one of the broker's or leaves it alone.
LEMMA NextBroker == [Next]_vars => [B!Next]_(B!vars)
<1> SUFFICES ASSUME [Next]_vars PROVE [B!Next]_(B!vars)
  OBVIOUS
<1>1. CASE UNCHANGED brokerVars
  BY <1>1 DEF brokerVars, B!vars, B!channels, B!loop, B!callers, B!inboxes, B!history
<1>2. CASE ~ UNCHANGED brokerVars
  <2>1. Next
    BY <1>2 DEF vars
  <2> QED BY <2>1, <1>2, BrokerSteps DEF B!Next, B!Start
<1> QED BY <1>1, <1>2

\* What the proofs below need to know of the broker.
Channels == Conn \cup {DbCh}

BrokerView ==
  /\ msg \in 0..MaxPublish /\ published \in 0..MaxPublish /\ msg <= published
  /\ subs \subseteq Channels /\ made \subseteq Channels
  /\ sent \in [Channels -> Seq(Messages)]
  /\ read \in [Channels -> Nat] /\ joined \in [Channels -> 0..MaxPublish]
  /\ \A c \in Channels :
       /\ Len(sent[c]) \in Nat /\ read[c] \in Nat /\ read[c] <= Len(sent[c])
       /\ joined[c] \in Nat /\ joined[c] <= msg
       /\ \A i \in 1..Len(sent[c]) :
            /\ sent[c][i] \in 1..msg /\ joined[c] < sent[c][i]
            /\ \A j \in 1..Len(sent[c]) : i < j => sent[c][i] < sent[c][j]
       /\ c \notin made => c \notin subs
       /\ c \notin subs => (left[c] = 0 => sent[c] = <<>>)

\* It follows from the broker's invariant.
LEMMA BrokerFacts == B!IInv => BrokerView
<1> SUFFICES ASSUME B!IInv PROVE BrokerView
  OBVIOUS
<1>1. /\ B!TypeOK /\ B!BuffersConsistent /\ B!FreshHasNoPast /\ B!SpansConsistent
      /\ B!DeliveredInOrder
  BY DEF B!IInv
<1>2. /\ msg \in 0..MaxPublish /\ published \in 0..MaxPublish /\ msg <= published
      /\ subs \subseteq Channels /\ made \subseteq Channels
      /\ sent \in [Channels -> Seq(Messages)]
      /\ read \in [Channels -> Nat] /\ joined \in [Channels -> 0..MaxPublish]
      /\ left \in [Channels -> 0..MaxPublish]
  BY <1>1 DEF B!TypeOK, B!BuffersConsistent, B!Messages, Messages, Channels
<1>3. ASSUME NEW c \in Channels
      PROVE  /\ Len(sent[c]) \in Nat /\ read[c] \in Nat /\ read[c] <= Len(sent[c])
             /\ joined[c] \in Nat /\ joined[c] <= msg /\ left[c] <= msg
             /\ \A i \in 1..Len(sent[c]) : \A j \in 1..Len(sent[c]) :
                  i < j => sent[c][i] < sent[c][j]
             /\ c \notin made => c \notin subs
  BY <1>1, <1>2 DEF B!BuffersConsistent, B!SpansConsistent, B!DeliveredInOrder,
     B!FreshHasNoPast, B!Fresh, Channels
<1>4. ASSUME NEW c \in Channels, NEW i \in 1..Len(sent[c])
      PROVE  sent[c][i] \in 1..msg /\ joined[c] < sent[c][i]
  <2>1. sent[c][i] \in B!Offered(c)
    BY <1>1 DEF B!DeliveredInOrder, B!Elems, Channels
  <2> QED BY <2>1, <1>2, <1>3 DEF B!Offered
<1>5. ASSUME NEW c \in Channels, c \notin subs, left[c] = 0, sent[c] # <<>>
      PROVE  FALSE
  <2>1. sent[c] \in Seq(Messages) /\ 1 \in 1..Len(sent[c])
    BY <1>5, <1>2, EmptySeq, <1>3
  <2>2. sent[c][1] \in B!Offered(c)
    BY <2>1, <1>1 DEF B!DeliveredInOrder, B!Elems, Channels
  <2> QED BY <2>2, <1>2, <1>5 DEF B!Offered
<1> QED BY <1>2, <1>3, <1>4, <1>5 DEF BrokerView

\* The same of the next state.
LEMMA BrokerFactsNext == B!IInv' => BrokerView'
  BY BrokerFacts, PTL

-----------------------------------------------------------------------------
(***************************************************************************)
(* What every step does to the past: it only adds to it.                   *)
(***************************************************************************)
SamplesOK ==
  samples \in Seq([series : Series, time : Time]) /\ Len(samples) = published

BrokerGrows ==
  /\ msg <= msg'
  /\ \A c \in Channels :
       /\ Len(sent[c]) <= Len(sent'[c])
       /\ \A i \in 1..Len(sent[c]) : sent'[c][i] = sent[c][i]
       /\ c \in subs => c \in subs' /\ joined'[c] = joined[c]
       /\ c \notin subs /\ c \in subs' => joined'[c] = msg /\ msg' = msg /\ c \in made
  /\ UNCHANGED <<gone, unsubCh, left>>

Grows ==
  /\ BrokerGrows
  /\ published <= published' /\ \A m \in 1..published : samples'[m] = samples[m]

\* A sample is created with its message, and none is ever changed.
LEMMA SamplesStep ==
  ASSUME SamplesOK, B!IInv, [Next]_vars
  PROVE  SamplesOK' /\ published <= published'
         /\ \A m \in 1..published : samples'[m] = samples[m]
<1>0. published \in Nat
  BY BrokerFacts DEF BrokerView
<1>1. ASSUME NEW s \in Series, NEW t \in Time, CreateValue(s, t)
      PROVE  SamplesOK' /\ published <= published'
             /\ \A m \in 1..published : samples'[m] = samples[m]
  <2> DEFINE x == [series |-> s, time |-> t]
  <2>1. samples' = Append(samples, x) /\ published' = published + 1
    BY <1>1 DEF CreateValue, B!Publish
  <2>2. x \in [series : Series, time : Time]
    OBVIOUS
  <2> HIDE DEF x
  <2>3. /\ Append(samples, x) \in Seq([series : Series, time : Time])
        /\ Len(Append(samples, x)) = Len(samples) + 1
        /\ \A m \in 1..Len(samples) : Append(samples, x)[m] = samples[m]
    BY <2>2, AppendProperties DEF SamplesOK
  <2> QED BY <2>1, <2>3, <1>0 DEF SamplesOK
<1>2. UNCHANGED <<samples, published>> =>
        SamplesOK' /\ published <= published'
        /\ \A m \in 1..published : samples'[m] = samples[m]
  BY <1>0 DEF SamplesOK
<1>3. ASSUME ~ \E s \in Series, t \in Time : CreateValue(s, t)
      PROVE  UNCHANGED <<samples, published>>
  <2>1. CASE BrokerStep
    BY <2>1 DEF BrokerStep, B!Register, B!TakeMessage, B!Offer, B!callers
  <2>2. CASE DbSubscribe \/ DbTake \/ DbInsert \/ WriterStep
    BY <2>2 DEF DbSubscribe, DbTake, DbInsert, WriterStep, B!Subscribe, B!Receive,
                B!callers, brokerVars
  <2>3. ASSUME NEW c \in Conn, Subscribe(c) PROVE UNCHANGED <<samples, published>>
    BY <2>3, Zenon DEF Subscribe, SendHello, Load, Refuse, SendError, SendInitial, Join,
                TakeLive, SendLive, B!Subscribe, B!Receive, B!callers, brokerVars
  <2>4. ASSUME NEW v \in Viewer, OnMessage(v) \/ OnClose(v)
        PROVE UNCHANGED <<samples, published>>
    BY <2>4 DEF OnMessage, OnClose, brokerVars
  <2>5. ASSUME NEW v \in Viewer, NEW c \in Conn, Connect(v, c)
        PROVE UNCHANGED <<samples, published>>
    BY <2>5 DEF Connect, brokerVars
  <2>6. CASE UNCHANGED vars
    BY <2>6 DEF vars, brokerVars
  <2> QED BY <1>3, <2>1, <2>2, <2>3, <2>4, <2>5, <2>6 DEF Next
<1> QED BY <1>1, <1>2, <1>3

\* Every step adds to what the broker has sent.
LEMMA Growth ==
  ASSUME SamplesOK, B!IInv, [Next]_vars
  PROVE  Grows
<1>0. BrokerView /\ B!TypeOK /\ B!BuffersConsistent /\ B!FreshHasNoPast
  BY BrokerFacts DEF B!IInv
<1>1. published <= published' /\ \A m \in 1..published : samples'[m] = samples[m]
  BY SamplesStep
<1> SUFFICES BrokerGrows
  BY <1>1 DEF Grows
<1>2. UNCHANGED <<msg, sent, subs, joined, gone, unsubCh, left>> => BrokerGrows
  BY <1>0 DEF BrokerView, BrokerGrows
<1>3. CASE UNCHANGED brokerVars
  BY <1>2, <1>3 DEF brokerVars
<1>4. CASE B!Publish
  BY <1>2, <1>4 DEF B!Publish, B!loop, B!inboxes, B!history
<1>5. CASE B!Register
  <2>1. PICK c \in made : subCh = <<c>>
    BY <1>0, <1>5 DEF B!Register, B!BuffersConsistent
  <2>2. subs' = subs \cup {c} /\ joined' = [joined EXCEPT ![c] = msg]
        /\ UNCHANGED <<msg, sent, gone, unsubCh, left>>
    BY <2>1, <1>5 DEF B!Register, B!callers, B!inboxes
  <2>3. c \in Channels /\ c \in B!Elems(subCh)
    BY <2>1, <1>0 DEF BrokerView, B!Elems
  <2>4. c \notin subs
    BY <2>3, <1>0 DEF B!FreshHasNoPast, B!Fresh, Channels
  <2> QED BY <2>1, <2>2, <2>3, <2>4, <1>0 DEF BrokerView, BrokerGrows
<1>6. CASE B!TakeMessage
  <2>1. msg' = msg + 1
    BY <1>0, <1>6 DEF B!TakeMessage, B!BuffersConsistent
  <2> QED BY <2>1, <1>0, <1>6
          DEF B!TakeMessage, B!callers, B!inboxes, B!history, BrokerView, BrokerGrows
<1>7. ASSUME NEW c \in Channels, B!Offer(c) PROVE BrokerGrows
  <2>1. UNCHANGED <<msg, subs, joined, gone, unsubCh, left>>
    BY <1>7 DEF B!Offer, B!channels, B!callers, B!history
  <2>2. sent' = [sent EXCEPT ![c] = Append(@, msg)] \/ sent' = sent
    BY <1>7 DEF B!Offer
  <2>3. ASSUME NEW d \in Channels
        PROVE  /\ Len(sent[d]) <= Len(sent'[d])
               /\ \A i \in 1..Len(sent[d]) : sent'[d][i] = sent[d][i]
    <3>1. sent[d] \in Seq(Messages) /\ Len(sent[d]) \in Nat
      BY <1>0 DEF BrokerView
    <3>2. sent'[d] = Append(sent[d], msg) \/ sent'[d] = sent[d]
      BY <2>2, <1>0 DEF BrokerView
    <3>3. /\ Len(Append(sent[d], msg)) = Len(sent[d]) + 1
          /\ \A i \in 1..Len(sent[d]) : Append(sent[d], msg)[i] = sent[d][i]
      BY <3>1
    <3> QED BY <3>1, <3>2, <3>3
  <2> QED BY <2>1, <2>3, <1>0 DEF BrokerView, BrokerGrows
<1>8. ASSUME NEW c \in Channels, B!Subscribe(c) PROVE BrokerGrows
  BY <1>2, <1>8 DEF B!Subscribe, B!loop, B!inboxes, B!history
<1>9. ASSUME NEW c \in Channels, B!Receive(c) PROVE BrokerGrows
  BY <1>2, <1>9 DEF B!Receive, B!channels, B!loop, B!callers, B!history
<1>10. BrokerGrows
  <2>1. CASE ~ UNCHANGED brokerVars
    <3>1. Next
      BY <2>1 DEF vars
    <3> QED BY <2>1, <3>1, BrokerSteps, <1>4, <1>5, <1>6, <1>7, <1>8, <1>9 DEF Channels
  <2> QED BY <2>1, <1>3
<1> QED BY <1>10

\* A sample keeps its key.
LEMMA KeyKept ==
  ASSUME Grows, NEW m \in 1..published
  PROVE  KeyOf(m)' = KeyOf(m) /\ EntriesOf(m)' = EntriesOf(m)
<1>1. samples'[m] = samples[m]
  BY DEF Grows
<1>2. KeyOf(m)' = KeyOf(m)
  BY <1>1 DEF KeyOf
<1>3. {p \in Positions : Shown[p] = samples'[m].series}
        = {p \in Positions : Shown[p] = samples[m].series}
  BY <1>1
<1>4. EntriesOf(m)' = EntriesOf(m)
  BY <1>3 DEF EntriesOf, Entry, Positions
<1> QED BY <1>2, <1>4

\* The key of a sample is the key of a row.
LEMMA KeyType ==
  ASSUME SamplesOK, NEW m \in 1..published
  PROVE  /\ samples[m].series \in Series /\ samples[m].time \in Time
         /\ KeyOf(m) \in Series \X Time
<1> DEFINE X == [series : Series, time : Time]
<1>0. samples \in Seq(X) /\ m \in 1..Len(samples)
  BY DEF SamplesOK
<1>1. samples[m] \in X
  <2> HIDE DEF X
  <2> QED BY <1>0, ElementOfSeq
<1> QED BY <1>1 DEF KeyOf

-----------------------------------------------------------------------------
(***************************************************************************)
(* The way to the database: what the recorder has accepted is what         *)
(* publishToDB has received.                                               *)
(***************************************************************************)
InsertOps == [kind : {"insert"}, key : Series \X Time, value : Messages]

Base == SamplesOK /\ NobodyLeaves /\ LogIsRead /\ log \in Seq(InsertOps)

\* It holds at the start.
LEMMA InitBase == Init => Base
<1> SUFFICES ASSUME Init PROVE Base
  OBVIOUS
<1>1. log = <<>> /\ samples = <<>> /\ published = 0 /\ dbHolds = 0 /\ read[DbCh] = 0
      /\ gone = {} /\ unsubCh = <<>> /\ \A c \in Conn \cup {DbCh} : left[c] = 0
  BY DEF Init, B!Init, R!Init
<1> QED BY <1>1, EmptySeq DEF Base, SamplesOK, NobodyLeaves, LogIsRead, Inserted

\* Only publishToDB receives from its channel and queues objects.
LEMMA DbSteps ==
  ASSUME BrokerView, [Next]_vars
  PROVE  DbTake \/ DbInsert \/ UNCHANGED <<dbHolds, log, read[DbCh]>>
<1>1. CASE UNCHANGED vars
  BY <1>1 DEF vars, brokerVars, recorderVars
<1>2. ASSUME NEW s \in Series, NEW t \in Time, CreateValue(s, t)
      PROVE  UNCHANGED <<dbHolds, log, read[DbCh]>>
  BY <1>2 DEF CreateValue, B!Publish, B!inboxes, recorderVars
<1>3. CASE BrokerStep
  BY <1>3 DEF BrokerStep, B!Register, B!TakeMessage, B!Offer, B!inboxes, recorderVars
<1>4. CASE DbSubscribe
  BY <1>4 DEF DbSubscribe, B!Subscribe, B!inboxes, recorderVars
<1>5. CASE WriterStep
  BY <1>5 DEF WriterStep, R!RunWriter, R!Collect, R!Flush, R!FlushFails, brokerVars
<1>6. ASSUME NEW c \in Conn, Subscribe(c)
      PROVE  UNCHANGED <<dbHolds, log, read[DbCh]>>
  <2>1. CASE TakeLive(c)
    <3>1. read' = [read EXCEPT ![c] = @ + 1] /\ UNCHANGED <<dbHolds, log>>
      BY <2>1 DEF TakeLive, B!Receive, recorderVars
    <3> QED BY <3>1 DEF BrokerView, Channels
  <2>2. CASE Join(c)
    BY <2>2 DEF Join, B!Subscribe, B!inboxes, recorderVars
  <2>3. CASE ~ TakeLive(c) /\ ~ Join(c)
    BY <1>6, <2>3, Zenon DEF Subscribe, SendHello, Load, Refuse, SendError, SendInitial,
                      SendLive, brokerVars, recorderVars
  <2> QED BY <2>1, <2>2, <2>3
<1>7. ASSUME NEW v \in Viewer, OnMessage(v) \/ OnClose(v)
      PROVE  UNCHANGED <<dbHolds, log, read[DbCh]>>
  BY <1>7, Zenon DEF OnMessage, OnClose, brokerVars, recorderVars
<1>8. ASSUME NEW v \in Viewer, NEW c \in Conn, Connect(v, c)
      PROVE  UNCHANGED <<dbHolds, log, read[DbCh]>>
  BY <1>8 DEF Connect, brokerVars, recorderVars
<1> QED BY <1>1, <1>2, <1>3, <1>4, <1>5, <1>6, <1>7, <1>8 DEF Next

\* Every step keeps it.
LEMMA NextBase == Base /\ B!IInv /\ [Next]_vars => Base'
<1> SUFFICES ASSUME Base, B!IInv, [Next]_vars PROVE Base'
  OBVIOUS
<1>1. SamplesOK' /\ NobodyLeaves' /\ Grows
  BY SamplesStep, Growth DEF Base, NobodyLeaves, Grows, BrokerGrows
<1>2. BrokerView /\ DbCh \in Channels
  BY BrokerFacts DEF Channels
<1>3. /\ read[DbCh] \in Nat /\ read[DbCh] <= Len(sent[DbCh]) /\ Len(sent[DbCh]) \in Nat
      /\ \A i \in 1..Len(sent[DbCh]) :
           sent[DbCh][i] \in 1..published /\ sent[DbCh][i] \in Messages
  BY <1>2 DEF BrokerView, Messages
<1>4. ASSUME NEW i \in 1..Len(sent[DbCh])
      PROVE  /\ sent'[DbCh][i] = sent[DbCh][i]
             /\ InsertOf(sent[DbCh][i])' = InsertOf(sent[DbCh][i])
  <2>1. sent'[DbCh][i] = sent[DbCh][i]
    BY <1>1, <1>2 DEF Grows, BrokerGrows
  <2>2. samples'[sent[DbCh][i]] = samples[sent[DbCh][i]]
    BY <1>1, <1>3 DEF Grows
  <2> QED BY <2>1, <2>2 DEF InsertOf, KeyOf
<1>5. /\ dbHolds # 0 => read[DbCh] > 0 /\ dbHolds = sent[DbCh][read[DbCh]]
      /\ Len(log) = Inserted /\ log \in Seq(InsertOps)
      /\ \A i \in 1..Inserted : log[i] = InsertOf(sent[DbCh][i])
  BY DEF Base, LogIsRead
<1>6. CASE UNCHANGED <<dbHolds, log, read[DbCh]>>
  <2>1. Inserted' = Inserted /\ Inserted <= Len(sent[DbCh])
    BY <1>3, <1>6 DEF Inserted
  <2>2. \A i \in 1..Inserted' : log'[i] = InsertOf(sent[DbCh][i])'
    BY <2>1, <1>3, <1>4, <1>5, <1>6
  <2> QED BY <2>1, <2>2, <1>1, <1>3, <1>4, <1>5, <1>6 DEF Base, LogIsRead
<1>7. CASE DbTake
  <2>1. /\ dbHolds = 0 /\ read'[DbCh] = read[DbCh] + 1 /\ log' = log /\ sent' = sent
        /\ read[DbCh] + 1 <= Len(sent[DbCh]) /\ dbHolds' = sent[DbCh][read'[DbCh]]
    BY <1>2, <1>3, <1>7 DEF DbTake, B!Receive, B!Unread, recorderVars, BrokerView
  <2>2. Inserted' = read[DbCh] /\ Inserted = read[DbCh] /\ dbHolds' # 0
    BY <2>1, <1>3 DEF Inserted
  <2>3. \A i \in 1..Inserted' : log'[i] = InsertOf(sent[DbCh][i])'
    BY <2>1, <2>2, <1>3, <1>4, <1>5
  <2> QED BY <2>1, <2>2, <2>3, <1>1, <1>3, <1>5 DEF Base, LogIsRead
<1>8. CASE DbInsert
  <2>1. /\ dbHolds # 0 /\ dbHolds' = 0 /\ log' = Append(log, InsertOf(dbHolds))
        /\ UNCHANGED <<sent, read>>
    BY <1>8 DEF DbInsert, R!InsertValue, R!Insert, R!Queue, brokerVars, InsertOf
  <2>2. Inserted' = read[DbCh] /\ Inserted = read[DbCh] - 1 /\ read[DbCh] > 0
        /\ dbHolds = sent[DbCh][read[DbCh]] /\ dbHolds \in 1..published
        /\ dbHolds \in Messages
    BY <2>1, <1>3, <1>5 DEF Inserted
  <2>3. InsertOf(dbHolds) \in InsertOps
    BY <2>2, KeyType DEF InsertOf, InsertOps, Base
  <2>4. /\ log' \in Seq(InsertOps) /\ Len(log') = read[DbCh]
        /\ \A i \in 1..(read[DbCh] - 1) : log'[i] = log[i]
        /\ log'[read[DbCh]] = InsertOf(sent[DbCh][read[DbCh]])
    <3> DEFINE op == InsertOf(dbHolds)
    <3> HIDE DEF op
    <3>1. log' = Append(log, op) /\ op \in InsertOps
      BY <2>1, <2>3 DEF op
    <3>2. op = InsertOf(sent[DbCh][read[DbCh]])
      BY <2>2 DEF op
    <3>3. Len(log) = read[DbCh] - 1
      BY <2>2, <1>5
    <3> QED BY <3>1, <3>2, <3>3, <1>3, <1>5, AppendProperties
  <2>5. \A i \in 1..Inserted' : log'[i] = InsertOf(sent[DbCh][i])'
    <3> TAKE i \in 1..Inserted'
    <3>1. i \in 1..Len(sent[DbCh])
      BY <2>2, <1>3
    <3>2. InsertOf(sent[DbCh][i])' = InsertOf(sent[DbCh][i])
      BY <3>1, <1>4
    <3>3. CASE i = read[DbCh]
      BY <3>2, <3>3, <2>4
    <3>4. CASE i \in 1..Inserted
      BY <3>2, <3>4, <2>2, <2>4, <1>5
    <3> QED BY <3>3, <3>4, <2>2, <1>3
  <2> QED BY <2>1, <2>2, <2>4, <2>5, <1>1 DEF Base, LogIsRead
<1> QED BY <1>2, <1>6, <1>7, <1>8, DbSteps

-----------------------------------------------------------------------------
(***************************************************************************)
(* The recorder.                                                           *)
(***************************************************************************)
\* Every step is one of the recorder's or leaves it alone.
LEMMA NextRecorder == Base /\ B!IInv /\ [Next]_vars => [R!Next]_(R!vars)
<1> SUFFICES ASSUME Base, B!IInv, [Next]_vars PROVE [R!Next]_(R!vars)
  OBVIOUS
<1>1. CASE UNCHANGED recorderVars
  BY <1>1 DEF recorderVars, R!vars
<1>2. CASE DbInsert
  <2>1. dbHolds \in 1..published /\ dbHolds \in Messages
    <3>1. BrokerView /\ dbHolds # 0
      BY <1>2, BrokerFacts DEF DbInsert
    <3> QED BY <3>1 DEF Base, LogIsRead, BrokerView, Channels, Messages
  <2>2. KeyOf(dbHolds) \in Series \X Time
    BY <2>1, KeyType DEF Base
  <2> QED BY <2>1, <2>2, <1>2 DEF DbInsert, R!Next, Messages
<1>3. CASE WriterStep
  BY <1>3 DEF WriterStep, R!Next
<1>4. ASSUME NEW s \in Series, NEW t \in Time, CreateValue(s, t)
      PROVE  UNCHANGED recorderVars
  BY <1>4 DEF CreateValue
<1>5. CASE BrokerStep \/ DbSubscribe \/ DbTake \/ UNCHANGED vars
  BY <1>1, <1>5 DEF BrokerStep, DbSubscribe, DbTake, vars
<1>6. ASSUME NEW c \in Conn, Subscribe(c) PROVE UNCHANGED recorderVars
  BY <1>6, Zenon DEF Subscribe, SendHello, Load, Refuse, SendError, SendInitial, Join,
              TakeLive, SendLive
<1>7. ASSUME NEW v \in Viewer, OnMessage(v) \/ OnClose(v) PROVE UNCHANGED recorderVars
  BY <1>7, Zenon DEF OnMessage, OnClose
<1>8. ASSUME NEW v \in Viewer, NEW c \in Conn, Connect(v, c)
      PROVE  UNCHANGED recorderVars
  BY <1>8 DEF Connect
<1> QED BY <1>1, <1>2, <1>3, <1>4, <1>5, <1>6, <1>7, <1>8 DEF Next

RecorderInv == R!TypeOK /\ R!PipelineIntact /\ R!TableHoldsWritten

-----------------------------------------------------------------------------
(***************************************************************************)
(* What the table holds, in terms of the messages publishToDB was sent.    *)
(***************************************************************************)
\* Message i of publishToDB is the first of those that are written with key k.
FirstWritten(i, k) ==
  /\ KeyOf(sent[DbCh][i]) = k
  /\ \A j \in 1..durable : KeyOf(sent[DbCh][j]) = k => i <= j

TableView ==
  /\ durable \in Nat /\ durable <= Inserted /\ Inserted <= read[DbCh]
  /\ durable <= Len(sent[DbCh]) /\ Len(sent[DbCh]) \in Nat /\ msg \in Nat
  /\ \A i \in 1..Len(sent[DbCh]) :
       /\ sent[DbCh][i] \in 1..msg
       /\ \A j \in 1..Len(sent[DbCh]) : i < j => sent[DbCh][i] < sent[DbCh][j]
  /\ \A k \in Series \X Time :
       \/ table[k] = 0 /\ \A i \in 1..durable : KeyOf(sent[DbCh][i]) # k
       \/ \E i \in 1..durable : FirstWritten(i, k) /\ table[k] = sent[DbCh][i]

\* It follows from the three invariants.
LEMMA TableFacts == B!IInv /\ Base /\ RecorderInv => TableView
<1> SUFFICES ASSUME B!IInv, Base, RecorderInv PROVE TableView
  OBVIOUS
<1>1. BrokerView /\ DbCh \in Channels
  BY BrokerFacts DEF Channels
<1>2. /\ Len(log) = Inserted /\ \A i \in 1..Inserted : log[i] = InsertOf(sent[DbCh][i])
      /\ (dbHolds # 0 => read[DbCh] > 0) /\ read[DbCh] \in Nat
  BY <1>1 DEF Base, LogIsRead, BrokerView
<1>3. durable \in Nat /\ durable <= Inserted /\ Inserted <= read[DbCh]
  BY <1>2 DEF RecorderInv, R!TypeOK, R!PipelineTypeOK, Inserted
<1>6. /\ durable <= Len(sent[DbCh]) /\ Len(sent[DbCh]) \in Nat /\ msg \in Nat
      /\ \A i \in 1..Len(sent[DbCh]) :
           /\ sent[DbCh][i] \in 1..msg
           /\ \A j \in 1..Len(sent[DbCh]) : i < j => sent[DbCh][i] < sent[DbCh][j]
  <2>1. read[DbCh] <= Len(sent[DbCh]) /\ Len(sent[DbCh]) \in Nat /\ msg \in Nat
    BY <1>1 DEF BrokerView
  <2>2. Inserted \in Int
    BY <1>2 DEF Inserted
  <2>3. durable <= Len(sent[DbCh])
    BY <2>1, <2>2, <1>2, <1>3
  <2> QED BY <2>1, <2>3, <1>1 DEF BrokerView
<1>4. ASSUME NEW i \in 1..durable
      PROVE  log[i].key = KeyOf(sent[DbCh][i]) /\ log[i].kind = "insert"
             /\ log[i].value = sent[DbCh][i]
  BY <1>2, <1>3 DEF InsertOf
<1>5. ASSUME NEW k \in Series \X Time
      PROVE  \/ table[k] = 0 /\ \A i \in 1..durable : KeyOf(sent[DbCh][i]) # k
             \/ \E i \in 1..durable : FirstWritten(i, k) /\ table[k] = sent[DbCh][i]
  <2> DEFINE W == {i \in 1..durable : log[i].key = k /\ log[i].kind = "insert"}
             V == {i \in 1..durable : log[i].key = k /\ log[i].kind = "save"}
  <2>1. V = {}
    BY <1>4
  <2>2. W = {i \in 1..durable : KeyOf(sent[DbCh][i]) = k}
    BY <1>4
  <2>3. table[k] = IF W # {} THEN log[Min(W)].value ELSE 0
    BY <2>1 DEF RecorderInv, R!TableHoldsWritten, R!RowOf, R!Min, Min
  <2>4. CASE W = {}
    BY <2>2, <2>3, <2>4
  <2>5. CASE W # {}
    <3>1. W \subseteq Nat
      BY <1>3
    <3>2. Min(W) \in W /\ \A x \in W : Min(W) <= x
      <4> HIDE DEF W
      <4> QED BY <2>5, <3>1, LeastIsMin
    <3>3. PICK i \in 1..durable : i = Min(W)
      BY <3>2
    <3>4. KeyOf(sent[DbCh][i]) = k /\ table[k] = sent[DbCh][i]
      BY <2>2, <2>3, <2>5, <3>2, <3>3, <1>4
    <3>5. \A j \in 1..durable : KeyOf(sent[DbCh][j]) = k => i <= j
      BY <2>2, <3>2, <3>3
    <3> QED BY <3>4, <3>5 DEF FirstWritten
  <2> QED BY <2>4, <2>5
<1> QED BY <1>3, <1>5, <1>6 DEF TableView

\* A row is of its key, and of a message the broker has taken.
LEMMA RowOfTable ==
  ASSUME TableView, NEW k \in Series \X Time, table[k] # 0
  PROVE  table[k] \in 1..msg /\ KeyOf(table[k]) = k
<1>1. PICK i \in 1..durable : FirstWritten(i, k) /\ table[k] = sent[DbCh][i]
  BY DEF TableView
<1>2. i \in 1..Len(sent[DbCh])
  BY DEF TableView
<1> QED BY <1>1, <1>2 DEF FirstWritten, TableView

\* The table only gets rows it did not have, all of later messages than those
\* it had.
TableGrows ==
  \A k \in Series \X Time :
    \/ table'[k] = table[k]
    \/ /\ table[k] = 0 /\ table'[k] \in Nat
       /\ \A l \in Series \X Time : table[l] # 0 => table[l] < table'[k]

\* Every step of the recorder's only adds to it.
LEMMA TableStep ==
  ASSUME BrokerView, TableView, TableView', Grows, RecorderInv, [R!Next]_(R!vars)
  PROVE  TableGrows
<1>1. durable \in Nat /\ durable' \in Nat /\ durable <= durable'
  <2>1. Len(rows) \in Nat
    BY LenProperties DEF RecorderInv, R!TypeOK, R!PipelineTypeOK
  <2>2. durable' = durable \/ durable' = durable + Len(rows)
    BY DEF R!Next, R!vars, R!InsertValue, R!Save, R!Insert, R!Queue,
           R!RunWriter, R!Collect, R!Flush, R!FlushFails, R!Crash
  <2> QED BY <2>1, <2>2 DEF TableView
<1>2. /\ durable <= Len(sent[DbCh]) /\ durable' <= Len(sent'[DbCh])
      /\ Len(sent[DbCh]) \in Nat /\ Len(sent'[DbCh]) \in Nat /\ msg' \in Nat
      /\ \A i, j \in 1..Len(sent'[DbCh]) : i < j => sent'[DbCh][i] < sent'[DbCh][j]
      /\ \A i \in 1..Len(sent'[DbCh]) : sent'[DbCh][i] \in 1..msg'
  BY DEF TableView
<1>3. ASSUME NEW i \in 1..durable
      PROVE  /\ sent'[DbCh][i] = sent[DbCh][i] /\ sent[DbCh][i] # 0
             /\ KeyOf(sent[DbCh][i])' = KeyOf(sent[DbCh][i])
  <2>1. i \in 1..Len(sent[DbCh]) /\ DbCh \in Channels
    BY <1>1, <1>2 DEF Channels
  <2>2. sent[DbCh][i] \in 1..msg /\ sent'[DbCh][i] = sent[DbCh][i]
    BY <2>1 DEF Grows, BrokerGrows, TableView
  <2>3. samples'[sent[DbCh][i]] = samples[sent[DbCh][i]]
    <3>1. sent[DbCh][i] \in 1..published
      BY <2>2 DEF BrokerView
    <3> QED BY <3>1 DEF Grows
  <2> QED BY <2>2, <2>3 DEF KeyOf
<1>4. ASSUME NEW k \in Series \X Time
      PROVE  \/ table'[k] = 0 /\ \A i \in 1..durable' : KeyOf(sent[DbCh][i])' # k
             \/ \E i \in 1..durable' :
                  /\ KeyOf(sent[DbCh][i])' = k /\ table'[k] = sent'[DbCh][i]
                  /\ \A j \in 1..durable' : KeyOf(sent[DbCh][j])' = k => i <= j
  BY DEF TableView, FirstWritten
<1>5. ASSUME NEW k \in Series \X Time, table[k] # 0
      PROVE  table'[k] = table[k]
  <2>1. PICK i \in 1..durable :
          /\ KeyOf(sent[DbCh][i]) = k /\ table[k] = sent[DbCh][i]
          /\ \A j \in 1..durable : KeyOf(sent[DbCh][j]) = k => i <= j
    BY <1>5 DEF TableView, FirstWritten
  <2>2. i \in 1..durable' /\ KeyOf(sent[DbCh][i])' = k
    BY <2>1, <1>1, <1>3
  <2>3. PICK j \in 1..durable' :
          /\ KeyOf(sent[DbCh][j])' = k /\ table'[k] = sent'[DbCh][j]
          /\ \A n \in 1..durable' : KeyOf(sent[DbCh][n])' = k => j <= n
    BY <2>2, <1>4
  <2>4. j <= i
    BY <2>2, <2>3
  <2>5. j \in 1..durable /\ KeyOf(sent[DbCh][j]) = k
    <3>1. j \in 1..durable
      BY <2>4, <1>1
    <3> QED BY <3>1, <2>3, <1>3
  <2>6. i = j
    BY <2>1, <2>4, <2>5
  <2> QED BY <2>1, <2>3, <2>6, <1>3
<1>6. ASSUME NEW k \in Series \X Time, table[k] = 0, table'[k] # 0,
             NEW l \in Series \X Time, table[l] # 0
      PROVE  table[l] < table'[k]
  <2>1. PICK i \in 1..durable' : KeyOf(sent[DbCh][i])' = k /\ table'[k] = sent'[DbCh][i]
    BY <1>4, <1>6
  <2>2. i \notin 1..durable
    <3> SUFFICES ASSUME i \in 1..durable PROVE FALSE
      OBVIOUS
    <3>1. KeyOf(sent[DbCh][i]) = k
      BY <2>1, <1>3
    <3>2. PICK j \in 1..durable : table[k] = sent[DbCh][j]
      BY <3>1 DEF TableView
    <3> QED BY <3>2, <1>3, <1>6
  <2>3. PICK j \in 1..durable : table[l] = sent[DbCh][j]
    BY <1>6 DEF TableView
  <2>4. i \in 1..Len(sent'[DbCh]) /\ j \in 1..Len(sent'[DbCh]) /\ j < i
    BY <2>2, <1>1, <1>2
  <2>5. sent'[DbCh][j] < sent'[DbCh][i]
    BY <2>4, <1>2
  <2> QED BY <2>1, <2>3, <2>5, <1>3
<1>7. ASSUME NEW k \in Series \X Time PROVE table'[k] \in Nat
  <2>1. CASE table'[k] = 0
    BY <2>1
  <2>2. CASE \E i \in 1..durable' : table'[k] = sent'[DbCh][i]
    <3>1. PICK i \in 1..Len(sent'[DbCh]) : table'[k] = sent'[DbCh][i]
      BY <2>2, <1>1, <1>2
    <3> QED BY <3>1, <1>2
  <2> QED BY <2>1, <2>2, <1>4
<1> QED BY <1>5, <1>6, <1>7 DEF TableGrows

\* The invariants imply that the first sample of a key is the recorded one.
LEMMA FirstIsRecorded == B!IInv /\ Base /\ RecorderInv => FirstSampleRecorded
<1> SUFFICES ASSUME B!IInv, Base, RecorderInv PROVE FirstSampleRecorded
  OBVIOUS
<1> DEFINE q == rows \o objects
<1>1. TableView
  BY TableFacts
<1>2. /\ durable \in Nat /\ durable <= Len(sent[DbCh]) /\ Len(sent[DbCh]) \in Nat
      /\ \A i \in 1..Len(sent[DbCh]) :
           /\ sent[DbCh][i] \in 1..msg
           /\ \A j \in 1..Len(sent[DbCh]) : i < j => sent[DbCh][i] < sent[DbCh][j]
  BY <1>1 DEF TableView
<1>3. /\ dbHolds # 0 => read[DbCh] > 0 /\ dbHolds = sent[DbCh][read[DbCh]]
      /\ Len(log) = Inserted
      /\ \A i \in 1..Inserted : log[i] = InsertOf(sent[DbCh][i])
      /\ read[DbCh] \in Nat
  BY BrokerFacts DEF Base, LogIsRead, BrokerView, Channels
<1>4. ASSUME NEW i \in 1..Len(sent[DbCh]), NEW k, k = KeyOf(sent[DbCh][i]),
             i <= read[DbCh], dbHolds # sent[DbCh][i], writer # "returned",
             ~ \E j \in 1..Len(q) : q[j].value = sent[DbCh][i]
      PROVE  table[k] = Min({m \in B!Elems(sent[DbCh]) : KeyOf(m) = k})
  <2>1. i \in 1..Inserted
    BY <1>3, <1>4 DEF Inserted
  <2>2. log[i].value = sent[DbCh][i]
    BY <2>1, <1>3 DEF InsertOf
  <2>3. SubSeq(log, durable + 1, Len(log)) = q
    BY <1>4 DEF RecorderInv, R!TypeOK, R!PipelineTypeOK, R!PipelineIntact
  <2>4. i <= durable
    <3> SUFFICES ASSUME i > durable PROVE FALSE
      BY <1>2
    <3>1. /\ log \in Seq(InsertOps) /\ i \in (durable + 1)..Len(log)
          /\ Len(log) \in Nat
      BY <2>1, <1>2, <1>3, LenProperties DEF Base
    <3>2. /\ Len(SubSeq(log, durable + 1, Len(log))) = Len(log) - durable
          /\ SubSeq(log, durable + 1, Len(log))[i - durable] = log[i]
      <4> DEFINE X == InsertOps
                 m == Len(log)
                 t == SubSeq(log, durable + 1, m)
      <4>1. /\ log \in Seq(X) /\ durable + 1 \in 1..(m + 1) /\ m \in 0..m
            /\ m \in Nat /\ durable < m
        BY <3>1, <1>2
      <4> HIDE DEF X
      <4>2. /\ Len(t) = IF durable + 1 <= m THEN m - (durable + 1) + 1 ELSE 0
            /\ \A n \in 1..(m - (durable + 1) + 1) : t[n] = log[(durable + 1) + n - 1]
        BY <4>1, SubSeqProperties
      <4> HIDE DEF t
      <4>3. i - durable \in 1..(m - (durable + 1) + 1)
            /\ (durable + 1) + (i - durable) - 1 = i
        BY <3>1, <1>2
      <4>4. Len(t) = m - durable /\ t[i - durable] = log[i]
        BY <4>1, <4>2, <4>3, <1>2
      <4> QED BY <4>4 DEF t
    <3> HIDE DEF q
    <3>3. Len(q) = Len(log) - durable /\ q[i - durable] = log[i]
      BY <3>2, <2>3
    <3>4. i - durable \in 1..(Len(log) - durable)
      BY <3>1, <1>2
    <3>5. i - durable \in 1..Len(q)
      BY <3>3, <3>4
    <3> QED BY <3>3, <3>5, <2>2, <1>4
  <2>5. k \in Series \X Time
    <3>1. sent[DbCh][i] \in 1..published
      BY BrokerFacts, <1>2 DEF BrokerView
    <3> QED BY <3>1, <1>4, KeyType DEF Base
  <2>6. PICK n \in 1..durable : FirstWritten(n, k) /\ table[k] = sent[DbCh][n]
    BY <2>4, <2>5, <1>1, <1>4 DEF TableView
  <2> DEFINE T == {m \in B!Elems(sent[DbCh]) : KeyOf(m) = k}
  <2>7. T \subseteq Int /\ sent[DbCh][n] \in T
    BY <2>6, <1>2 DEF FirstWritten, B!Elems
  <2>8. ASSUME NEW x \in T PROVE sent[DbCh][n] <= x
    <3>1. PICK j \in 1..Len(sent[DbCh]) : x = sent[DbCh][j] /\ KeyOf(sent[DbCh][j]) = k
      BY DEF B!Elems
    <3>2. n <= j
      BY <3>1, <2>6, <1>2 DEF FirstWritten
    <3>3. n \in 1..Len(sent[DbCh])
      BY <1>2
    <3> QED BY <3>1, <3>2, <3>3, <1>2
  <2> HIDE DEF T
  <2>9. Min(T) = sent[DbCh][n]
    BY <2>7, <2>8, MinIs
  <2> QED BY <2>6, <2>9 DEF T
<1> HIDE DEF q
<1>5. \A i \in 1..Len(sent[DbCh]) :
        \/ i > read[DbCh]
        \/ dbHolds = sent[DbCh][i]
        \/ \E j \in 1..Len(q) : q[j].value = sent[DbCh][i]
        \/ writer = "returned"
        \/ table[KeyOf(sent[DbCh][i])]
             = Min({m \in B!Elems(sent[DbCh]) : KeyOf(m) = KeyOf(sent[DbCh][i])})
  BY <1>3, <1>4
<1> QED BY <1>5 DEF FirstSampleRecorded, q

-----------------------------------------------------------------------------
(***************************************************************************)
(* Sequences and what is in them.                                          *)
(***************************************************************************)
\* What Append returns.
LEMMA ElemsAppend ==
  ASSUME NEW X, NEW s \in Seq(X), NEW x \in X
  PROVE  /\ Append(s, x) \in Seq(X) /\ Len(s) \in Nat /\ Len(Append(s, x)) = Len(s) + 1
         /\ Append(s, x)[Len(s) + 1] = x
         /\ \A i \in 1..Len(s) : Append(s, x)[i] = s[i]
  BY AppendProperties, LenProperties

\* A concatenation holds what its parts hold.
LEMMA ElemsConcat ==
  ASSUME NEW X, NEW s \in Seq(X), NEW t \in Seq(X)
  PROVE  s \o t \in Seq(X) /\ B!Elems(s \o t) = B!Elems(s) \cup B!Elems(t)
<1>1. /\ s \o t \in Seq(X) /\ Len(s \o t) = Len(s) + Len(t)
      /\ \A i \in 1..(Len(s) + Len(t)) :
           (s \o t)[i] = IF i <= Len(s) THEN s[i] ELSE t[i - Len(s)]
      /\ Len(s) \in Nat /\ Len(t) \in Nat
  BY ConcatProperties, LenProperties
<1> DEFINE u == s \o t
<1> HIDE DEF u
<1>2. Len(u) = Len(s) + Len(t)
      /\ \A i \in 1..(Len(s) + Len(t)) :
           u[i] = IF i <= Len(s) THEN s[i] ELSE t[i - Len(s)]
  BY <1>1 DEF u
<1>3. ASSUME NEW e \in B!Elems(u) PROVE e \in B!Elems(s) \cup B!Elems(t)
  <2>1. PICK i \in 1..Len(u) : e = u[i]
    BY DEF B!Elems
  <2>2. CASE i <= Len(s)
    BY <2>1, <2>2, <1>1, <1>2 DEF B!Elems
  <2>3. CASE i > Len(s)
    <3>1. i - Len(s) \in 1..Len(t) /\ e = t[i - Len(s)]
      BY <2>1, <2>3, <1>1, <1>2
    <3> QED BY <3>1 DEF B!Elems
  <2> QED BY <2>1, <2>2, <2>3, <1>1, <1>2
<1>4. ASSUME NEW e \in B!Elems(s) PROVE e \in B!Elems(u)
  <2>1. PICK i \in 1..Len(s) : e = s[i]
    BY DEF B!Elems
  <2>2. i \in 1..Len(u) /\ u[i] = e
    BY <2>1, <1>1, <1>2
  <2> QED BY <2>2 DEF B!Elems
<1>5. ASSUME NEW e \in B!Elems(t) PROVE e \in B!Elems(u)
  <2>1. PICK i \in 1..Len(t) : e = t[i]
    BY DEF B!Elems
  <2> DEFINE k == i + Len(s)
  <2>2. /\ k \in 1..(Len(s) + Len(t)) /\ ~ (k <= Len(s)) /\ k - Len(s) = i
        /\ k \in 1..Len(u)
    BY <2>1, <1>1, <1>2
  <2> HIDE DEF k
  <2>3. u[k] = e
    BY <2>1, <2>2, <1>2
  <2> QED BY <2>2, <2>3 DEF B!Elems
<1> QED BY <1>1, <1>3, <1>4, <1>5 DEF u

\* It holds nothing twice if neither part does and they share nothing.
LEMMA InjectiveConcat ==
  ASSUME NEW X, NEW s \in Seq(X), NEW t \in Seq(X), IsInjective(s), IsInjective(t),
         \A e \in B!Elems(s) : e \notin B!Elems(t)
  PROVE  IsInjective(s \o t)
<1>1. /\ s \o t \in Seq(X) /\ Len(s \o t) = Len(s) + Len(t)
      /\ \A i \in 1..(Len(s) + Len(t)) :
           (s \o t)[i] = IF i <= Len(s) THEN s[i] ELSE t[i - Len(s)]
      /\ Len(s) \in Nat /\ Len(t) \in Nat
      /\ DOMAIN s = 1..Len(s) /\ DOMAIN t = 1..Len(t) /\ DOMAIN (s \o t) = 1..Len(s \o t)
  BY ConcatProperties, LenProperties
<1> DEFINE u == s \o t
<1> HIDE DEF u
<1>2. DOMAIN u = 1..(Len(s) + Len(t))
      /\ \A i \in 1..(Len(s) + Len(t)) :
           u[i] = IF i <= Len(s) THEN s[i] ELSE t[i - Len(s)]
  BY <1>1 DEF u
<1>3. ASSUME NEW i \in 1..(Len(s) + Len(t)), NEW j \in 1..(Len(s) + Len(t)), u[i] = u[j]
      PROVE  i = j
  <2>1. CASE i <= Len(s) /\ j <= Len(s)
    <3>1. i \in DOMAIN s /\ j \in DOMAIN s /\ s[i] = s[j]
      BY <2>1, <1>1, <1>2, <1>3
    <3> QED BY <3>1 DEF IsInjective
  <2>2. CASE i > Len(s) /\ j > Len(s)
    <3>1. /\ i - Len(s) \in DOMAIN t /\ j - Len(s) \in DOMAIN t
          /\ t[i - Len(s)] = t[j - Len(s)]
      BY <2>2, <1>1, <1>2, <1>3
    <3>2. i - Len(s) = j - Len(s)
      BY <3>1 DEF IsInjective
    <3> QED BY <3>2, <1>1
  <2>3. CASE i <= Len(s) /\ j > Len(s)
    <3> DEFINE k == j - Len(s)
    <3>1. i \in 1..Len(s) /\ k \in 1..Len(t) /\ s[i] = t[k]
      BY <2>3, <1>1, <1>2, <1>3
    <3> HIDE DEF k
    <3>2. s[i] \in B!Elems(s) /\ t[k] \in B!Elems(t)
      BY <3>1 DEF B!Elems
    <3> QED BY <3>1, <3>2
  <2>4. CASE i > Len(s) /\ j <= Len(s)
    <3> DEFINE k == i - Len(s)
    <3>1. j \in 1..Len(s) /\ k \in 1..Len(t) /\ s[j] = t[k]
      BY <2>4, <1>1, <1>2, <1>3
    <3> HIDE DEF k
    <3>2. s[j] \in B!Elems(s) /\ t[k] \in B!Elems(t)
      BY <3>1 DEF B!Elems
    <3> QED BY <3>1, <3>2
  <2> QED BY <2>1, <2>2, <2>3, <2>4, <1>1
<1> QED BY <1>2, <1>3 DEF IsInjective, u

\* The empty sequence holds nothing.
LEMMA EmptyElems == B!Elems(<<>>) = {} /\ IsInjective(<<>>)
<1>1. Len(<<>>) = 0 /\ DOMAIN <<>> = {}
  BY EmptySeq
<1> QED BY <1>1 DEF B!Elems, IsInjective

\* Ascending lists the whole of its set, each member once.
LEMMA AscendingFacts ==
  ASSUME NEW T, T \subseteq Nat, IsFiniteSet(T)
  PROVE  /\ Ascending(T) \in Seq(T)
         /\ B!Elems(Ascending(T)) = T
         /\ \A i, j \in 1..Len(Ascending(T)) : i < j => Ascending(T)[i] < Ascending(T)[j]
         /\ \A i, j \in 1..Len(Ascending(T)) : Ascending(T)[i] = Ascending(T)[j] => i = j
<1> DEFINE n == Cardinality(T)
           s == Ascending(T)
<1>1. n \in Nat
  BY FS_CardinalityType
<1>2. \E f \in [1..n -> T] : Increasing(f, n)
  BY Ranking
<1>3. s \in [1..n -> T] /\ Increasing(s, n)
  BY <1>2 DEF Ascending, Increasing
<1> HIDE DEF s
<1>4. /\ \A i, j \in 1..n : s[i] = s[j] => i = j
      /\ \A x \in T : \E i \in 1..n : s[i] = x
  BY <1>3, RankedIsAll
<1> HIDE DEF n
<1>5. s \in Seq(T) /\ Len(s) = n
  BY <1>1, <1>3
<1>6. B!Elems(s) = T
  <2>1. \A i \in 1..n : s[i] \in T
    BY <1>3
  <2>2. B!Elems(s) = {s[i] : i \in 1..n}
    BY <1>5 DEF B!Elems
  <2>3. ASSUME NEW x \in T PROVE x \in {s[i] : i \in 1..n}
    BY <1>4
  <2>4. ASSUME NEW x \in {s[i] : i \in 1..n} PROVE x \in T
    BY <2>1
  <2> QED BY <2>2, <2>3, <2>4
<1> QED BY <1>3, <1>4, <1>5, <1>6 DEF s, Increasing

-----------------------------------------------------------------------------
\* The entries a message has in a frame: one for each position that shows its
\* series.
LEMMA EntriesFacts ==
  ASSUME NEW m \in Messages
  PROVE  /\ EntriesOf(m) \in Seq(Entries) /\ IsInjective(EntriesOf(m))
         /\ \A e \in B!Elems(EntriesOf(m)) : e.sample = m
<1> DEFINE T == {p \in Positions : Shown[p] = samples[m].series}
           at == Ascending(T)
           n == Len(at)
           s == EntriesOf(m)
<1>1. T \subseteq Positions /\ T \subseteq Nat /\ IsFiniteSet(T)
  <2>1. Len(Shown) \in Nat
    OBVIOUS
  <2>2. IsFiniteSet(Positions) /\ Positions \subseteq Nat
    BY <2>1, FS_Interval DEF Positions
  <2>3. T \in SUBSET Positions
    OBVIOUS
  <2> QED BY <2>2, <2>3, FS_Subset
<1>2. s = [i \in 1..n |-> Entry(at[i], m)]
  BY DEF EntriesOf
<1> HIDE DEF s, T
<1>3. at \in Seq(T) /\ n \in Nat /\ \A i, j \in 1..n : at[i] = at[j] => i = j
  BY <1>1, AscendingFacts, LenProperties
<1> HIDE DEF at
<1>4. ASSUME NEW i \in 1..n PROVE at[i] \in Positions
  BY <1>1, <1>3, ElementOfSeq
<1> HIDE DEF n
<1>5. ASSUME NEW i \in 1..n PROVE s[i] = Entry(at[i], m) /\ s[i] \in Entries
  BY <1>2, <1>4 DEF Entry, Entries
<1>6. s \in Seq(Entries) /\ DOMAIN s = 1..n /\ Len(s) = n
  <2>1. s \in [1..n -> Entries] /\ DOMAIN s = 1..n
    BY <1>2, <1>5
  <2> HIDE DEF Entries
  <2> QED BY <2>1, <1>3
<1>7. IsInjective(s)
  BY <1>3, <1>5, <1>6 DEF IsInjective, Entry
<1>8. ASSUME NEW e \in B!Elems(s) PROVE e.sample = m
  BY <1>5, <1>6 DEF B!Elems, Entry
<1> QED BY <1>6, <1>7, <1>8 DEF s

\* The rows at a position.
LEMMA RowsFacts ==
  ASSUME BrokerView, TableView, NEW p \in Positions, NEW times \in SUBSET Time
  PROVE  /\ Rows(p, times) \in Seq(Entries) /\ IsInjective(Rows(p, times))
         /\ \A e \in B!Elems(Rows(p, times)) :
              /\ e.pos = p /\ e.sample \in 1..msg
              /\ samples[e.sample].series = Shown[p] /\ samples[e.sample].time \in times
              /\ table[KeyOf(e.sample)] = e.sample
         /\ \A t \in times : table[<<Shown[p], t>>] # 0 =>
              Entry(p, table[<<Shown[p], t>>]) \in B!Elems(Rows(p, times))
<1> DEFINE T == {t \in times : table[<<Shown[p], t>>] # 0}
           at == Ascending(T)
           n == Len(at)
           s == Rows(p, times)
<1>1. T \subseteq times /\ T \subseteq Nat /\ IsFiniteSet(T)
  <2>1. T \in SUBSET Time
    OBVIOUS
  <2> QED BY <2>1, FS_Subset
<1>2. s = [i \in 1..n |-> Entry(p, table[<<Shown[p], at[i]>>])]
  BY DEF Rows
<1>3. at \in Seq(T) /\ n \in Nat /\ B!Elems(at) = T
      /\ \A i, j \in 1..n : at[i] = at[j] => i = j
  <2> HIDE DEF T
  <2> QED BY <1>1, AscendingFacts, LenProperties
<1>4. ASSUME NEW i \in 1..n
      PROVE  at[i] \in T /\ at[i] \in times /\ table[<<Shown[p], at[i]>>] # 0
  <2>1. at[i] \in T
    <3> HIDE DEF T
    <3> QED BY <1>3, ElementOfSeq
  <2> HIDE DEF at
  <2> QED BY <2>1
<1>5. Shown[p] \in Series
  BY DEF Positions
<1> HIDE DEF s, at
<1>6. ASSUME NEW t \in times, table[<<Shown[p], t>>] # 0
      PROVE  /\ table[<<Shown[p], t>>] \in 1..msg
             /\ KeyOf(table[<<Shown[p], t>>]) = <<Shown[p], t>>
  <2>1. <<Shown[p], t>> \in Series \X Time
    BY <1>5
  <2> QED BY <2>1, <1>6, RowOfTable
<1> DEFINE r(i) == table[<<Shown[p], at[i]>>]
<1>7. ASSUME NEW i \in 1..n
      PROVE  r(i) \in 1..msg /\ KeyOf(r(i)) = <<Shown[p], at[i]>>
  BY <1>4, <1>6
<1>8. ASSUME NEW i \in 1..n PROVE s[i] = Entry(p, r(i)) /\ s[i] \in Entries
  <2>1. r(i) \in Messages
    BY <1>7 DEF BrokerView, Messages
  <2> QED BY <2>1, <1>2 DEF Entry, Entries
<1> HIDE DEF n
<1>9. s \in Seq(Entries) /\ DOMAIN s = 1..n /\ Len(s) = n
  <2>1. s \in [1..n -> Entries] /\ DOMAIN s = 1..n
    BY <1>2, <1>8
  <2> HIDE DEF Entries
  <2> QED BY <2>1, <1>3
<1>10. IsInjective(s)
  <2>1. ASSUME NEW i \in 1..n, NEW j \in 1..n, s[i] = s[j] PROVE i = j
    <3>1. Entry(p, r(i)) = Entry(p, r(j))
      BY <2>1, <1>8
    <3> HIDE DEF r
    <3>2. r(i) = r(j)
      BY <3>1 DEF Entry
    <3> USE DEF r
    <3>3. at[i] = at[j]
      BY <3>2, <1>7
    <3> QED BY <3>3, <1>3
  <2> QED BY <2>1, <1>9 DEF IsInjective
<1>11. ASSUME NEW e \in B!Elems(s)
       PROVE  /\ e.pos = p /\ e.sample \in 1..msg
              /\ samples[e.sample].series = Shown[p] /\ samples[e.sample].time \in times
              /\ table[KeyOf(e.sample)] = e.sample
  <2>1. PICK i \in 1..n : e = Entry(p, r(i))
    BY <1>8, <1>9 DEF B!Elems
  <2>2. e.pos = p /\ e.sample = r(i)
    BY <2>1 DEF Entry
  <2>3. e.sample \in 1..msg /\ KeyOf(e.sample) = <<Shown[p], at[i]>>
    BY <2>2, <1>7
  <2>4. samples[e.sample].series = Shown[p] /\ samples[e.sample].time = at[i]
    BY <2>3 DEF KeyOf
  <2> QED BY <2>2, <2>3, <2>4, <1>4
<1>12. ASSUME NEW t \in times, table[<<Shown[p], t>>] # 0
       PROVE  Entry(p, table[<<Shown[p], t>>]) \in B!Elems(s)
  <2>1. PICK i \in 1..n : at[i] = t
    BY <1>3, <1>12 DEF B!Elems, n
  <2> QED BY <2>1, <1>8, <1>9 DEF B!Elems
<1> QED BY <1>9, <1>10, <1>11, <1>12 DEF s

-----------------------------------------------------------------------------
(***************************************************************************)
(* Types of what the subscriptions, the websockets and the browsers keep.  *)
(***************************************************************************)
SubTypeOK ==
  /\ pc \in [Conn -> {"none", "hello", "load", "error", "ended", "join",
                      "live", "send"}]
  /\ wanted \in [Conn -> SUBSET Time]
  /\ pos \in [Conn -> 1..(Len(Shown) + 1)]
  /\ out \in [Conn -> Seq(Entries)]

WireTypeOK ==
  /\ handler \in [Conn -> BOOLEAN]
  /\ link \in [Conn -> {"none", "open", "broken"}]
  /\ frames \in [Conn -> Seq(Frames)]
  /\ seen \in [Conn -> Nat] /\ \A c \in Conn : seen[c] <= Len(frames[c])

ViewTypeOK ==
  /\ sock \in [Viewer -> Conn \cup {NoConn}]
  /\ got \in [Viewer -> Seq(Entries)]
  /\ date \in [Viewer -> Dates]

\* LocalTypeOK, by the part of the system that keeps the variables.
LEMMA LocalTypeParts ==
  LocalTypeOK <=> /\ SamplesOK /\ dbHolds \in 0..MaxPublish
                  /\ SubTypeOK /\ WireTypeOK /\ ViewTypeOK
  BY DEF LocalTypeOK, SamplesOK, SubTypeOK, WireTypeOK, ViewTypeOK

\* A frame is written to the websocket, or the handler is gone.
Sent(c, frame) ==
  /\ frames' = [frames EXCEPT ![c] = Append(frames[c], frame)]
  /\ handler' = handler /\ handler[c]

NotSent(c) ==
  frames' = frames /\ handler' = [handler EXCEPT ![c] = FALSE] /\ handler[c]

\* A frame is sent, or the handler ends.
LEMMA SendCases ==
  ASSUME NEW c \in Conn, NEW f, Send(c, f)
  PROVE  (Sent(c, f) \/ NotSent(c)) /\ link' = link /\ seen' = seen
  BY DEF Send, Sent, NotSent

\* Either way the websockets keep their types.
LEMMA SendTypes ==
  ASSUME WireTypeOK, NEW c \in Conn, NEW f \in Frames, Send(c, f)
  PROVE  WireTypeOK'
<1>1. (Sent(c, f) \/ NotSent(c)) /\ link' = link /\ seen' = seen
  BY SendCases
<1>2. CASE NotSent(c)
  BY <1>1, <1>2 DEF NotSent, WireTypeOK
<1>3. CASE Sent(c, f)
  <2> DEFINE X == Frames
  <2>1. frames[c] \in Seq(X) /\ f \in X
    BY DEF WireTypeOK
  <2> HIDE DEF X
  <2>2. /\ Append(frames[c], f) \in Seq(X)
        /\ Len(Append(frames[c], f)) = Len(frames[c]) + 1 /\ Len(frames[c]) \in Nat
    BY <2>1, ElemsAppend
  <2>3. frames' \in [Conn -> Seq(X)] /\ \A d \in Conn : seen[d] <= Len(frames'[d])
    <3> DEFINE Y == Seq(X)
               g == Append(frames[c], f)
    <3>1. /\ frames \in [Conn -> Y] /\ g \in Y
          /\ frames' = [frames EXCEPT ![c] = g]
      BY <2>2, <1>3 DEF Sent, WireTypeOK, X
    <3>2. seen[c] <= Len(g) /\ \A d \in Conn : seen[d] <= Len(frames[d])
      BY <2>2 DEF WireTypeOK
    <3> HIDE DEF Y, g
    <3> QED BY <3>1, <3>2 DEF Y
  <2> QED BY <2>3, <1>1, <1>3 DEF Sent, WireTypeOK, X
<1> QED BY <1>1, <1>2, <1>3

\* The frames the server writes.
LEMMA FrameTypes ==
  /\ HelloFrame \in Frames /\ ErrorFrame \in Frames
  /\ \A s \in Seq(Entries) : DataFrame(s) \in Frames
<1> DEFINE Y == Seq(Entries)
<1>1. <<>> \in Y
  BY EmptySeq
<1> HIDE DEF Y
<1> QED BY <1>1 DEF Frames, HelloFrame, ErrorFrame, DataFrame, Y

\* A subscription's step keeps the types.
LEMMA SubscribeTypes ==
  ASSUME BrokerView, TableView, SubTypeOK, WireTypeOK, NEW c \in Conn, Subscribe(c)
  PROVE  SubTypeOK' /\ WireTypeOK'
<1> DEFINE Y == Seq(Entries)
<1>1. <<>> \in Y /\ out[c] \in Y /\ pos[c] \in 1..(Len(Shown) + 1) /\ out \in [Conn -> Y]
      /\ wanted[c] \in SUBSET Time
  BY EmptySeq DEF SubTypeOK
<1>2. CASE SendHello(c)
  BY <1>2, SendTypes, FrameTypes DEF SendHello, Goto, SubTypeOK
<1>3. CASE SendError(c)
  BY <1>3, SendTypes, FrameTypes DEF SendError, Goto, SubTypeOK
<1>4. CASE SendInitial(c) \/ SendLive(c)
  <2>1. DataFrame(out[c]) \in Frames
    BY <1>1, FrameTypes
  <2>2. WireTypeOK'
    BY <2>1, <1>4, SendTypes DEF SendInitial, SendLive
  <2>3. out' = [out EXCEPT ![c] = <<>>]
    BY <1>4 DEF SendInitial, SendLive
  <2>4. out' \in [Conn -> Y]
    <3> HIDE DEF Y
    <3> QED BY <2>3, <1>1
  <2> QED BY <2>2, <2>4, <1>4 DEF SendInitial, SendLive, Goto, SubTypeOK
<1>5. CASE Load(c)
  <2>1. pos[c] \in Positions /\ out' = [out EXCEPT ![c] = out[c] \o Rows(pos[c], wanted[c])]
    BY <1>5 DEF Load
  <2>2. Rows(pos[c], wanted[c]) \in Y
    BY <2>1, <1>1, RowsFacts
  <2>3. out[c] \o Rows(pos[c], wanted[c]) \in Y
    BY <2>2, <1>1, ConcatProperties
  <2>4. out' \in [Conn -> Y]
    <3> HIDE DEF Y
    <3> QED BY <2>1, <2>3, <1>1
  <2>5. pos' \in [Conn -> 1..(Len(Shown) + 1)]
    <3>1. Len(Shown) \in Nat
      OBVIOUS
    <3>2. pos[c] + 1 \in 1..(Len(Shown) + 1)
      BY <2>1, <3>1 DEF Positions
    <3> QED BY <3>2, <1>5 DEF Load, SubTypeOK
  <2> QED BY <2>4, <2>5, <1>5 DEF Load, SubTypeOK, WireTypeOK, wireVars
<1>6. CASE Refuse(c) \/ Join(c)
  <2>1. /\ UNCHANGED <<wanted, pos, out, handler, link, frames, seen>>
        /\ pc' = [pc EXCEPT ![c] = "error"] \/ pc' = [pc EXCEPT ![c] = "live"]
    BY <1>6 DEF Refuse, Join, Goto, wireVars
  <2>2. WireTypeOK'
    BY <2>1 DEF WireTypeOK
  <2>3. SubTypeOK'
    BY <2>1 DEF SubTypeOK
  <2> QED BY <2>2, <2>3
<1>7. CASE TakeLive(c)
  <2>1. UNCHANGED <<wanted, pos, wireVars>>
        /\ \/ UNCHANGED <<pc, out>>
           \/ pc' = [pc EXCEPT ![c] = "send"]
              /\ out' = [out EXCEPT ![c] = EntriesOf(sent[c][read'[c]])]
    BY <1>7 DEF TakeLive
  <2>2. sent[c][read'[c]] \in Messages
    <3>1. read'[c] = read[c] + 1 /\ read'[c] \in 1..Len(sent[c])
      BY <1>7 DEF TakeLive, B!Receive, B!Unread, BrokerView, Channels
    <3> QED BY <3>1 DEF BrokerView, Channels, Messages
  <2>3. PICK m \in Messages : m = sent[c][read'[c]]
    BY <2>2
  <2>4. EntriesOf(m) \in Y
    BY EntriesFacts
  <2>5. out' \in [Conn -> Y]
    <3>1. out' = out \/ out' = [out EXCEPT ![c] = EntriesOf(m)]
      BY <2>1, <2>3
    <3> HIDE DEF Y
    <3> QED BY <3>1, <2>4, <1>1
  <2> QED BY <2>1, <2>5 DEF SubTypeOK, WireTypeOK, wireVars
<1> QED BY <1>2, <1>3, <1>4, <1>5, <1>6, <1>7 DEF Subscribe

\* So does a browser's.
LEMMA BrowserTypes ==
  ASSUME SubTypeOK, WireTypeOK, ViewTypeOK, NEW v \in Viewer,
         OnMessage(v) \/ OnClose(v) \/ \E c \in Conn : Connect(v, c)
  PROVE  SubTypeOK' /\ WireTypeOK' /\ ViewTypeOK'
<1>1. CASE OnMessage(v)
  <2> DEFINE c == sock[v]
             Y == Seq(Entries)
  <2>1. /\ c \in Conn /\ seen[c] < Len(frames[c]) /\ seen' = [seen EXCEPT ![c] = @ + 1]
        /\ got' = [got EXCEPT ![v] = @ \o frames[c][seen[c] + 1].entries]
        /\ UNCHANGED <<pc, wanted, pos, out, handler, link, frames, sock, date>>
    BY <1>1 DEF OnMessage, ViewTypeOK, subVars
  <2>2. seen[c] \in Nat /\ Len(frames[c]) \in Nat /\ frames[c] \in Seq(Frames)
    BY <2>1 DEF WireTypeOK
  <2>3. frames[c][seen[c] + 1] \in Frames
    <3> DEFINE X == Frames
    <3> HIDE DEF X, c
    <3>1. frames[c] \in Seq(X) /\ seen[c] + 1 \in 1..Len(frames[c])
      BY <2>1, <2>2 DEF X
    <3>2. frames[c][seen[c] + 1] \in X
      BY <3>1, ElementOfSeq
    <3> QED BY <3>2 DEF X
  <2>4. frames[c][seen[c] + 1].entries \in Y /\ got[v] \in Y /\ got \in [Viewer -> Y]
    BY <2>3 DEF Frames, ViewTypeOK
  <2>5. got[v] \o frames[c][seen[c] + 1].entries \in Y
    <3> DEFINE X == Entries
               s == frames[c][seen[c] + 1].entries
    <3>1. got[v] \in Seq(X) /\ s \in Seq(X)
      BY <2>4
    <3> HIDE DEF X, s, c
    <3>2. got[v] \o s \in Seq(X)
      BY <3>1, ConcatProperties
    <3> QED BY <3>2 DEF X, s
  <2>6. got' \in [Viewer -> Y]
    <3> DEFINE g == got[v] \o frames[c][seen[c] + 1].entries
    <3>1. got' = [got EXCEPT ![v] = g]
      BY <2>1
    <3> HIDE DEF Y, g
    <3>2. g \in Y
      BY <2>5 DEF g
    <3> QED BY <2>4, <3>1, <3>2
  <2>7. seen' \in [Conn -> Nat] /\ \A d \in Conn : seen'[d] <= Len(frames[d])
    <3> HIDE DEF c
    <3> QED BY <2>1, <2>2 DEF WireTypeOK
  <2> QED BY <2>1, <2>6, <2>7 DEF SubTypeOK, WireTypeOK, ViewTypeOK
<1>2. CASE OnClose(v)
  BY <1>2 DEF OnClose, SubTypeOK, WireTypeOK, ViewTypeOK, subVars
<1>3. ASSUME NEW c \in Conn, Connect(v, c)
      PROVE  SubTypeOK' /\ WireTypeOK' /\ ViewTypeOK'
  <2>1. date[v] \in SUBSET Time /\ Window(v) \in SUBSET Time
    BY DEF ViewTypeOK, Window
  <2> QED BY <2>1, <1>3 DEF Connect, Accept, SubTypeOK, WireTypeOK, ViewTypeOK
<1> QED BY <1>1, <1>2, <1>3

-----------------------------------------------------------------------------
(***************************************************************************)
(* One subscription.                                                       *)
(***************************************************************************)
\* What LiveAfterSnapshot and NothingLostInTransit say of one websocket.
LiveAfter(c) ==
  \A i, j \in 1..Len(frames[c]) :
    2 < j /\ i < j =>
      \A a \in B!Elems(frames[c][i].entries), b \in B!Elems(frames[c][j].entries) :
        a.sample < b.sample

Transit(c) ==
  handler[c] =>
    \A i \in 1..Len(sent[c]) :
      \A e \in B!Elems(EntriesOf(sent[c][i])) :
        \/ i > read[c]
        \/ e \in B!Elems(out[c])
        \/ \E f \in B!Elems(frames[c]) : e \in B!Elems(f.entries)

ConnPart(c) == ConnInv(c) /\ LiveAfter(c) /\ Transit(c)

Known == BrokerView /\ LocalTypeOK /\ NobodyLeaves /\ TableView

\* What is known of the variables of one websocket.
LEMMA ConnTypes ==
  ASSUME Known, NEW c \in Conn
  PROVE  /\ c \in Channels /\ Len(sent[c]) \in Nat /\ read[c] \in Nat
         /\ read[c] <= Len(sent[c]) /\ msg \in Nat /\ Mark(c) \in Nat /\ Mark(c) <= msg
         /\ sent[c] \in Seq(Messages)
         /\ out[c] \in Seq(Entries) /\ Len(out[c]) \in Nat
         /\ frames[c] \in Seq(Frames) /\ Len(frames[c]) \in Nat
         /\ seen[c] \in Nat /\ seen[c] <= Len(frames[c])
         /\ wanted[c] \in SUBSET Time
         /\ published \in Nat /\ msg <= published /\ published <= MaxPublish
<1>1. /\ out[c] \in Seq(Entries) /\ frames[c] \in Seq(Frames)
      /\ seen[c] \in Nat /\ seen[c] <= Len(frames[c]) /\ wanted[c] \in SUBSET Time
  BY DEF Known, LocalTypeOK
<1>2. Len(out[c]) \in Nat /\ Len(frames[c]) \in Nat
  <2> DEFINE X == Frames
             Y == Entries
  <2>1. out[c] \in Seq(Y) /\ frames[c] \in Seq(X)
    BY <1>1
  <2> HIDE DEF X, Y
  <2> QED BY <2>1, LenProperties
<1>3. c \in Channels
  BY DEF Channels
<1> QED BY <1>1, <1>2, <1>3 DEF Known, BrokerView, Mark

\* What is on its way to a browser is made of entries.
LEMMA EntryTypes ==
  ASSUME Known, NEW c \in Conn
  PROVE  /\ \A e \in B!Elems(out[c]) : e \in Entries
         /\ \A i \in 1..Len(frames[c]) : frames[c][i] \in Frames
         /\ \A i \in 1..Len(frames[c]) : \A e \in B!Elems(frames[c][i].entries) :
              e \in Entries
<1> DEFINE X == Frames
           Y == Entries
<1>1. out[c] \in Seq(Y) /\ frames[c] \in Seq(X)
  BY ConnTypes
<1>2. ASSUME NEW s \in Seq(Y), NEW e \in B!Elems(s) PROVE e \in Y
  <2> HIDE DEF Y
  <2>1. PICK i \in 1..Len(s) : e = s[i]
    BY DEF B!Elems
  <2> QED BY <2>1, ElementOfSeq
<1>3. ASSUME NEW i \in 1..Len(frames[c]) PROVE frames[c][i] \in X
  <2> HIDE DEF X
  <2> QED BY <1>1, ElementOfSeq
<1>4. ASSUME NEW i \in 1..Len(frames[c]) PROVE frames[c][i].entries \in Seq(Y)
  BY <1>3 DEF Frames
<1> QED BY <1>1, <1>2, <1>3, <1>4

\* A channel that is not a subscriber has been sent nothing.
LEMMA NotJoined ==
  ASSUME Known, NEW c \in Conn, c \notin subs
  PROVE  sent[c] = <<>> /\ read[c] = 0 /\ Len(sent[c]) = 0 /\ Mark(c) = msg
<1>1. left[c] = 0 /\ c \in Channels
  BY DEF Known, NobodyLeaves, Channels
<1>2. sent[c] = <<>>
  BY <1>1 DEF Known, BrokerView
<1> QED BY <1>2, ConnTypes, EmptySeq DEF Mark

\* Nor has one that was never registered.
LEMMA NotMade ==
  ASSUME Known, NEW c \in Conn, c \notin made
  PROVE  /\ c \notin subs /\ sent[c] = <<>> /\ read[c] = 0 /\ Len(sent[c]) = 0
         /\ Mark(c) = msg
<1>1. c \notin subs
  BY ConnTypes DEF Known, BrokerView
<1> QED BY <1>1, NotJoined

\* What a subscription has received is newer than its registration.
LEMMA Received ==
  ASSUME Known, NEW c \in Conn, NEW n \in 1..Len(sent[c])
  PROVE  /\ c \in subs /\ Mark(c) = joined[c] /\ Mark(c) < sent[c][n]
         /\ sent[c][n] \in 1..msg /\ sent[c][n] \in Messages
<1>1. c \in subs
  BY NotJoined
<1>2. sent[c][n] \in 1..msg /\ joined[c] < sent[c][n]
  BY ConnTypes DEF Known, BrokerView
<1> QED BY <1>1, <1>2, ConnTypes DEF Mark, Messages

-----------------------------------------------------------------------------
(***************************************************************************)
(* A step that leaves a subscription alone.                                *)
(***************************************************************************)
LocalSame(c) ==
  /\ pc'[c] = pc[c] /\ wanted'[c] = wanted[c] /\ pos'[c] = pos[c] /\ out'[c] = out[c]
  /\ handler'[c] = handler[c] /\ frames'[c] = frames[c] /\ read'[c] = read[c]
  /\ (link'[c] = "none" <=> link[c] = "none") /\ (pc[c] = "none" => seen'[c] = seen[c])
  /\ (c \in made' <=> c \in made)

\* What a snapshot may hold does not become older.
LEMMA MarkGrows ==
  ASSUME Known, Grows, BrokerView', NEW c \in Conn
  PROVE  /\ Mark(c) <= Mark(c)' /\ Mark(c)' \in Nat /\ Mark(c)' <= msg'
         /\ msg <= msg' /\ msg' \in Nat
<1>1. c \in Channels /\ msg' \in Nat /\ joined'[c] \in Nat /\ joined'[c] <= msg'
  BY DEF BrokerView, Channels
<1> QED BY <1>1, ConnTypes DEF Grows, BrokerGrows, Mark

\* What the broker has sent stays sent.
LEMMA SentKept ==
  ASSUME Known, Grows, NEW c \in Conn, NEW n \in 1..Len(sent[c])
  PROVE  /\ sent'[c][n] = sent[c][n] /\ n \in 1..Len(sent'[c])
         /\ EntriesOf(sent[c][n])' = EntriesOf(sent[c][n])
<1>1. sent'[c][n] = sent[c][n] /\ Len(sent[c]) <= Len(sent'[c])
  BY ConnTypes DEF Grows, BrokerGrows
<1>2. PICK m \in 1..published : m = sent[c][n]
  BY Received, ConnTypes
<1>3. EntriesOf(m)' = EntriesOf(m)
  BY KeyKept
<1>4. Len(sent[c]) \in Nat
  BY ConnTypes
<1>5. samples'[m] = samples[m]
  BY DEF Grows
<1>6. n \in 1..Len(sent'[c])
  BY <1>1, <1>4, SMT
<1> QED BY <1>1, <1>2, <1>3, <1>6

\* What holds of a subscription still does, however the others go on.
LEMMA ConnKept ==
  ASSUME Known, BrokerView', Grows, TableGrows, NEW c \in Conn, ConnPart(c), LocalSame(c)
  PROVE  ConnPart(c)'
<1>1. /\ frames'[c] = frames[c] /\ out'[c] = out[c] /\ pc'[c] = pc[c] /\ read'[c] = read[c]
      /\ wanted'[c] = wanted[c] /\ pos'[c] = pos[c] /\ handler'[c] = handler[c]
  BY DEF LocalSame
<1>2. /\ Mark(c) <= Mark(c)' /\ Mark(c)' \in Nat /\ Mark(c) \in Nat
      /\ msg <= msg' /\ msg' \in Nat /\ msg \in Nat
  BY MarkGrows, ConnTypes
<1>3. \A e \in Entries : e.sample \in Nat
  BY DEF Entries, Messages
<1>4. read[c] \in Nat /\ read[c] <= Len(sent[c]) /\ Len(sent[c]) \in Nat
  BY ConnTypes
<1>5. Stage(c)'
  BY DEF ConnPart, ConnInv, Stage, LocalSame
<1>6. FrameOrigin(c)'
  <2> SUFFICES ASSUME NEW i \in 1..Len(frames[c]), NEW e \in B!Elems(frames[c][i].entries)
               PROVE  IF i <= 2 THEN e.sample <= Mark(c)'
                      ELSE \E n \in 1..Done(c)' : e.sample = sent'[c][n]
    BY <1>1 DEF FrameOrigin
  <2>1. e.sample \in Nat
    BY EntryTypes, <1>3
  <2>2. CASE i <= 2
    BY <2>1, <2>2, <1>2 DEF ConnPart, ConnInv, FrameOrigin
  <2>3. CASE ~ (i <= 2)
    <3>1. PICK n \in 1..Done(c) : e.sample = sent[c][n]
      BY <2>3 DEF ConnPart, ConnInv, FrameOrigin
    <3>2. n \in 1..Len(sent[c]) /\ n \in 1..Done(c)'
      BY <1>1, <1>4 DEF Done
    <3> QED BY <3>1, <3>2, <2>3, SentKept
  <2> QED BY <2>2, <2>3
<1>7. OutOrigin(c)'
  <2>1. CASE pc[c] = "send"
    <3>1. read[c] > 0 /\ out[c] = EntriesOf(sent[c][read[c]])
      BY <2>1 DEF ConnPart, ConnInv, OutOrigin
    <3>2. PICK n \in 1..Len(sent[c]) : n = read[c]
      BY <3>1, <1>4
    <3>3. EntriesOf(sent[c][n])' = EntriesOf(sent[c][n])
      BY SentKept
    <3> QED BY <3>1, <3>2, <3>3, <2>1, <1>1 DEF OutOrigin
  <2>2. CASE pc[c] # "send"
    <3>1. \A e \in B!Elems(out[c]) : e.sample <= Mark(c) /\ e.sample \in Nat
      BY <2>2, EntryTypes, <1>3 DEF ConnPart, ConnInv, OutOrigin
    <3> QED BY <3>1, <2>2, <1>1, <1>2 DEF OutOrigin
  <2> QED BY <2>1, <2>2
<1>8. FramesDistinct(c)' /\ LiveAfter(c)'
  BY <1>1 DEF ConnPart, ConnInv, FramesDistinct, LiveAfter
<1>9. Snapshot(c)' = Snapshot(c) /\ \A p : SnapshotAt(c, p)' = SnapshotAt(c, p)
  BY <1>1 DEF Snapshot, SnapshotAt
<1>10. ASSUME NEW e \in B!Elems(Snapshot(c))
       PROVE  /\ e.sample \in 1..msg /\ e.sample \in 1..published
              /\ table[KeyOf(e.sample)] = e.sample
              /\ KeyOf(e.sample)' = KeyOf(e.sample) /\ KeyOf(e.sample) \in Series \X Time
              /\ samples'[e.sample] = samples[e.sample]
  <2>1. e \in Entries
    <3>1. e \in B!Elems(out[c]) \/ \E i \in 1..Len(frames[c]) : e \in B!Elems(frames[c][i].entries)
      BY ConnTypes, EmptyElems DEF Snapshot
    <3> QED BY <3>1, EntryTypes
  <2>2. e.sample <= msg /\ table[KeyOf(e.sample)] = e.sample
    BY DEF ConnPart, ConnInv, SnapshotRows
  <2>3. e.sample \in 1..msg /\ e.sample \in 1..published
    BY <2>1, <2>2, ConnTypes DEF Entries, Messages
  <2>4. PICK m \in 1..published : m = e.sample
    BY <2>3
  <2>5. samples'[m] = samples[m] /\ KeyOf(m) \in Series \X Time
    BY KeyType, LocalTypeParts DEF Grows, Known
  <2> QED BY <2>2, <2>3, <2>4, <2>5 DEF KeyOf
<1>11. SnapshotRows(c)'
  <2>1. ASSUME NEW e \in B!Elems(Snapshot(c))
        PROVE  /\ e.sample <= msg'
               /\ samples'[e.sample].series = Shown[e.pos]
               /\ samples'[e.sample].time \in wanted[c]
               /\ table'[KeyOf(e.sample)'] = e.sample
               /\ pc[c] = "load" => e.pos < pos[c]
    <3>1. table'[KeyOf(e.sample)] = e.sample
      <4>1. table[KeyOf(e.sample)] # 0
        BY <1>10
      <4> QED BY <4>1, <1>10 DEF TableGrows
    <3> QED BY <3>1, <1>2, <1>10 DEF ConnPart, ConnInv, SnapshotRows
  <2>2. IsInjective(Snapshot(c))
    BY DEF ConnPart, ConnInv, SnapshotRows
  <2> QED BY <2>1, <2>2, <1>1, <1>9 DEF SnapshotRows
<1>12. SnapshotGaps(c)'
  <2> SUFFICES ASSUME NEW p \in Positions, NEW t \in wanted[c],
                      table'[<<Shown[p], t>>] # 0,
                      table'[<<Shown[p], t>>] \notin SnapshotAt(c, p),
                      NEW n \in SnapshotAt(c, p)
               PROVE  n < table'[<<Shown[p], t>>]
    BY <1>1, <1>9 DEF SnapshotGaps
  <2>1. <<Shown[p], t>> \in Series \X Time
    BY ConnTypes DEF Positions
  <2>2. CASE table'[<<Shown[p], t>>] = table[<<Shown[p], t>>]
    BY <2>2 DEF ConnPart, ConnInv, SnapshotGaps
  <2>3. CASE table'[<<Shown[p], t>>] # table[<<Shown[p], t>>]
    <3>1. PICK e \in B!Elems(Snapshot(c)) : n = e.sample
      BY DEF SnapshotAt
    <3>2. table[KeyOf(n)] = n /\ n # 0 /\ KeyOf(n) \in Series \X Time
      BY <3>1, <1>10
    <3> QED BY <3>2, <2>1, <2>3 DEF TableGrows
  <2> QED BY <2>2, <2>3
<1>13. Transit(c)'
  <2> SUFFICES ASSUME handler[c], NEW i \in 1..Len(sent'[c]), ~ (i > read[c]),
                      NEW e \in B!Elems(EntriesOf(sent[c][i])')
               PROVE  \/ e \in B!Elems(out[c])
                      \/ \E f \in B!Elems(frames[c]) : e \in B!Elems(f.entries)
    BY <1>1 DEF Transit
  <2>1. i \in 1..Len(sent[c])
    BY <1>4
  <2>2. e \in B!Elems(EntriesOf(sent[c][i]))
    BY <2>1, SentKept
  <2> QED BY <2>1, <2>2 DEF ConnPart, Transit
<1> QED BY <1>5, <1>6, <1>7, <1>8, <1>11, <1>12, <1>13 DEF ConnPart, ConnInv

-----------------------------------------------------------------------------
(***************************************************************************)
(* The steps of one connection leave the broker's messages, the table and  *)
(* the other connections alone.                                            *)
(***************************************************************************)
SharedSame == UNCHANGED <<msg, subs, sent, joined, samples, published, table>>

\* What is computed from these stays the same.
LEMMA SharedKept ==
  ASSUME SharedSame
  PROVE  /\ \A c \in Conn : Mark(c)' = Mark(c)
         /\ \A m \in Messages : EntriesOf(m)' = EntriesOf(m) /\ KeyOf(m)' = KeyOf(m)
  BY DEF SharedSame, Mark, EntriesOf, Entry, KeyOf, Positions

\* Frame f is appended to what was written to c; or nothing is.
Wrote(c, f) ==
  /\ Len(frames'[c]) = Len(frames[c]) + 1 /\ frames'[c][Len(frames[c]) + 1] = f
  /\ \A i \in 1..Len(frames[c]) : frames'[c][i] = frames[c][i]
  /\ handler'[c] = TRUE

WroteNothing(c) == frames'[c] = frames[c] /\ handler'[c] = FALSE

\* Send does one of the two.
LEMMA SendEffect ==
  ASSUME Known, NEW c \in Conn, NEW f \in Frames, Send(c, f)
  PROVE  /\ Wrote(c, f) \/ WroteNothing(c)
         /\ handler[c] = TRUE /\ link'[c] = link[c] /\ seen'[c] = seen[c]
<1>1. (Sent(c, f) \/ NotSent(c)) /\ link' = link /\ seen' = seen
  BY SendCases
<1>2. frames \in [Conn -> Seq(Frames)] /\ handler \in [Conn -> BOOLEAN]
  BY DEF Known, LocalTypeOK
<1>3. CASE Sent(c, f)
  <2> DEFINE X == Frames
             g == Append(frames[c], f)
  <2>1. frames[c] \in Seq(X) /\ f \in X
    BY <1>2
  <2> HIDE DEF X
  <2>2. /\ Len(g) = Len(frames[c]) + 1 /\ g[Len(frames[c]) + 1] = f
        /\ \A i \in 1..Len(frames[c]) : g[i] = frames[c][i]
    BY <2>1, ElemsAppend
  <2>3. frames'[c] = g
    BY <1>2, <1>3 DEF Sent
  <2> HIDE DEF g
  <2> QED BY <2>2, <2>3, <1>1, <1>2, <1>3 DEF Sent, Wrote
<1>4. CASE NotSent(c)
  BY <1>1, <1>2, <1>4 DEF NotSent, WroteNothing
<1> QED BY <1>1, <1>3, <1>4

\* The frames there are then.
LEMMA FramesAfter ==
  ASSUME Known, NEW c \in Conn, NEW f, Wrote(c, f), NEW i \in 1..Len(frames'[c])
  PROVE  \/ i \in 1..Len(frames[c]) /\ frames'[c][i] = frames[c][i]
         \/ i = Len(frames[c]) + 1 /\ frames'[c][i] = f
  BY ConnTypes DEF Wrote

\* Without a snapshot there is nothing to claim of it.
LEMMA EmptySnapshot ==
  ASSUME NEW c \in Conn, Snapshot(c)' = <<>>
  PROVE  SnapshotRows(c)' /\ SnapshotGaps(c)'
  BY EmptyElems DEF SnapshotRows, SnapshotGaps, SnapshotAt

\* A snapshot that stays as it is keeps what holds of it.
LEMMA SameSnapshot ==
  ASSUME Known, SharedSame, NEW c \in Conn, SnapshotRows(c), SnapshotGaps(c),
         Snapshot(c)' = Snapshot(c), wanted'[c] = wanted[c], pc'[c] # "load"
  PROVE  SnapshotRows(c)' /\ SnapshotGaps(c)'
<1>1. SnapshotRows(c)'
  <2>1. ASSUME NEW e \in B!Elems(Snapshot(c))
        PROVE  /\ e.sample <= msg'
               /\ samples'[e.sample].series = Shown[e.pos]
               /\ samples'[e.sample].time \in wanted'[c]
               /\ table'[KeyOf(e.sample)'] = e.sample
    BY DEF SharedSame, SnapshotRows, KeyOf
  <2>2. IsInjective(Snapshot(c))
    BY DEF SnapshotRows
  <2> QED BY <2>1, <2>2 DEF SnapshotRows
<1>2. \A p : SnapshotAt(c, p)' = SnapshotAt(c, p)
  BY DEF SnapshotAt
<1>3. SnapshotGaps(c)'
  BY <1>2 DEF SnapshotGaps, SharedSame
<1> QED BY <1>1, <1>3

\* A channel the broker does not know has nothing in transit.
LEMMA NothingInTransit ==
  ASSUME Known, SharedSame, NEW c \in Conn, c \notin made
  PROVE  Transit(c)'
<1>1. Len(sent'[c]) = 0
  BY NotMade DEF SharedSame
<1> QED BY <1>1 DEF Transit

-----------------------------------------------------------------------------
(***************************************************************************)
(* The steps of a subscription.                                            *)
(***************************************************************************)
\* The parts of what holds of a subscription.
LEMMA KnowsStage ==
  ASSUME NEW c, ConnPart(c)
  PROVE  /\ Stage(c) /\ FrameOrigin(c) /\ OutOrigin(c) /\ FramesDistinct(c)
         /\ SnapshotRows(c) /\ SnapshotGaps(c) /\ LiveAfter(c) /\ Transit(c)
  BY DEF ConnPart, ConnInv

\* The clock, and the error.
LEMMA EmptyFrameSent ==
  ASSUME Known, SharedSame, NEW c \in Conn, ConnPart(c), NEW f \in Frames, f.entries = <<>>,
         Send(c, f), made' = made, wanted'[c] = wanted[c], pos'[c] = pos[c],
         out'[c] = out[c], read'[c] = read[c],
         \/ pc[c] = "hello" /\ pc'[c] = "load"
         \/ pc[c] = "error" /\ pc'[c] = "ended"
  PROVE  ConnPart(c)'
<1>1. /\ Wrote(c, f) \/ WroteNothing(c)
      /\ handler[c] = TRUE /\ link'[c] = link[c] /\ seen'[c] = seen[c]
  BY SendEffect
<1>2. /\ Stage(c) /\ FrameOrigin(c) /\ OutOrigin(c) /\ FramesDistinct(c)
  BY KnowsStage
<1>3. c \notin made /\ Len(frames[c]) \in Nat
      /\ Len(frames[c]) = (IF pc[c] = "hello" THEN 0 ELSE 1)
      /\ Len(frames'[c]) <= (IF pc[c] = "hello" THEN 1 ELSE 2)
      /\ (handler'[c] => Len(frames'[c]) = (IF pc[c] = "hello" THEN 1 ELSE 2))
      /\ Len(frames'[c]) \in Nat
  <2>1. c \notin made /\ Len(frames[c]) \in Nat
    BY <1>2, ConnTypes DEF Stage
  <2>2. Len(frames[c]) = (IF pc[c] = "hello" THEN 0 ELSE 1)
    BY <1>1, <1>2 DEF Stage
  <2>3. Wrote(c, f) => Len(frames'[c]) = Len(frames[c]) + 1
    BY DEF Wrote
  <2>4. WroteNothing(c) => Len(frames'[c]) = Len(frames[c]) /\ ~handler'[c]
    BY DEF WroteNothing
  <2> QED BY <2>1, <2>2, <2>3, <2>4, <1>1
<1>4. ASSUME NEW i \in 1..Len(frames'[c])
      PROVE  \/ i \in 1..Len(frames[c]) /\ frames'[c][i] = frames[c][i]
             \/ frames'[c][i].entries = <<>>
  <2>1. CASE Wrote(c, f)
    BY <2>1, FramesAfter
  <2>2. CASE WroteNothing(c)
    BY <2>2 DEF WroteNothing
  <2> QED BY <2>1, <2>2, <1>1
<1>5. Stage(c)'
  <2>1. Len(frames'[c]) > 0 => frames'[c][1].entries = <<>>
    <3> SUFFICES ASSUME Len(frames'[c]) > 0 PROVE frames'[c][1].entries = <<>>
      OBVIOUS
    <3>1. 1 \in 1..Len(frames'[c])
      BY <1>3
    <3> QED BY <3>1, <1>2, <1>4 DEF Stage
  <2> QED BY <2>1, <1>1, <1>2, <1>3 DEF Stage
<1>6. FrameOrigin(c)'
  <2>1. ASSUME NEW i \in 1..Len(frames'[c]), NEW e \in B!Elems(frames'[c][i].entries)
        PROVE  i <= 2 /\ e.sample <= Mark(c)'
    BY <1>2, <1>3, <1>4, SharedKept, EmptyElems DEF FrameOrigin
  <2> QED BY <2>1 DEF FrameOrigin
<1>7. OutOrigin(c)'
  BY <1>2, SharedKept DEF OutOrigin
<1>8. FramesDistinct(c)'
  BY <1>2, <1>4, EmptyElems DEF FramesDistinct
<1>9. LiveAfter(c)'
  BY <1>3 DEF LiveAfter
<1>10. Snapshot(c)' = <<>>
  <2>1. CASE pc[c] = "hello"
    BY <2>1, <1>2 DEF Stage, Snapshot
  <2>2. CASE pc[c] = "error" /\ Len(frames'[c]) >= 2
    <3>1. 2 \in 1..Len(frames'[c]) /\ 2 \notin 1..Len(frames[c])
      BY <2>2, <1>3
    <3> QED BY <2>2, <3>1, <1>4 DEF Snapshot
  <2>3. CASE pc[c] = "error" /\ ~ (Len(frames'[c]) >= 2)
    BY <2>3 DEF Snapshot
  <2> QED BY <2>1, <2>2, <2>3
<1> QED BY <1>3, <1>5, <1>6, <1>7, <1>8, <1>9, <1>10, EmptySnapshot, NothingInTransit
        DEF ConnPart, ConnInv

\* The clock.
LEMMA SendHelloStep ==
  ASSUME Known, SharedSame, NEW c \in Conn, ConnPart(c), SendHello(c)
  PROVE  ConnPart(c)'
<1>1. /\ HelloFrame \in Frames /\ HelloFrame.entries = <<>> /\ Send(c, HelloFrame)
      /\ pc[c] = "hello" /\ pc' = [pc EXCEPT ![c] = "load"]
      /\ UNCHANGED <<made, wanted, pos, out, read>>
  BY FrameTypes DEF SendHello, Goto, HelloFrame, brokerVars
<1>2. pc'[c] = "load"
  BY <1>1 DEF Known, LocalTypeOK
<1> QED BY <1>1, <1>2, EmptyFrameSent

\* The error.
LEMMA SendErrorStep ==
  ASSUME Known, SharedSame, NEW c \in Conn, ConnPart(c), SendError(c)
  PROVE  ConnPart(c)'
<1>1. /\ ErrorFrame \in Frames /\ ErrorFrame.entries = <<>> /\ Send(c, ErrorFrame)
      /\ pc[c] = "error" /\ pc' = [pc EXCEPT ![c] = "ended"]
      /\ UNCHANGED <<made, wanted, pos, out, read>>
  BY FrameTypes DEF SendError, Goto, ErrorFrame, brokerVars
<1>2. pc'[c] = "ended"
  BY <1>1 DEF Known, LocalTypeOK
<1> QED BY <1>1, <1>2, EmptyFrameSent

\* Nothing but the place of the goroutine and what it holds ready changes.
LEMMA FramesKept ==
  ASSUME SharedSame, NEW c \in Conn, ConnPart(c), frames'[c] = frames[c], Done(c)' = Done(c)
  PROVE  FrameOrigin(c)' /\ FramesDistinct(c)' /\ LiveAfter(c)'
<1>1. Mark(c)' = Mark(c) /\ sent' = sent
  BY SharedKept DEF SharedSame
<1> QED BY <1>1, KnowsStage DEF FrameOrigin, FramesDistinct, LiveAfter

\* One series is read.
LEMMA LoadStep ==
  ASSUME Known, SharedSame, NEW c \in Conn, ConnPart(c), Load(c)
  PROVE  ConnPart(c)'
<1> DEFINE p == pos[c]
           r == Rows(pos[c], wanted[c])
<1>1. /\ Stage(c) /\ FrameOrigin(c) /\ OutOrigin(c) /\ FramesDistinct(c)
      /\ SnapshotRows(c) /\ SnapshotGaps(c) /\ LiveAfter(c)
  BY KnowsStage
<1>2. /\ pc[c] = "load" /\ p \in Positions /\ p \in Nat
      /\ out'[c] = out[c] \o r /\ pos'[c] = p + 1
      /\ UNCHANGED <<made, pc, wanted, handler, link, frames, seen, read>>
  BY SMTT(20) DEF Load, Known, LocalTypeOK, wireVars, brokerVars, Positions
<1>3. /\ r \in Seq(Entries) /\ IsInjective(r)
      /\ \A e \in B!Elems(r) :
           /\ e.pos = p /\ e.sample \in 1..msg
           /\ samples[e.sample].series = Shown[p] /\ samples[e.sample].time \in wanted[c]
           /\ table[KeyOf(e.sample)] = e.sample
      /\ \A t \in wanted[c] : table[<<Shown[p], t>>] # 0 =>
           Entry(p, table[<<Shown[p], t>>]) \in B!Elems(r)
  BY <1>2, RowsFacts, ConnTypes DEF Known
<1> HIDE DEF p, r
<1>4. c \notin made /\ Mark(c) = msg /\ Snapshot(c) = out[c] /\ Snapshot(c)' = out'[c]
  BY <1>1, <1>2, NotMade DEF Stage, Snapshot
<1>5. out[c] \in Seq(Entries) /\ msg \in Nat
  BY ConnTypes
<1>6. B!Elems(out'[c]) = B!Elems(out[c]) \cup B!Elems(r)
  BY <1>2, <1>3, <1>5, ElemsConcat
<1>7. Stage(c)'
  BY <1>1, <1>2 DEF Stage
<1>8. FrameOrigin(c)' /\ FramesDistinct(c)' /\ LiveAfter(c)'
  BY <1>2, FramesKept DEF Done
<1>9. OutOrigin(c)'
  <2>1. \A e \in B!Elems(out'[c]) : e.sample <= Mark(c)
    BY <1>1, <1>2, <1>3, <1>4, <1>5, <1>6 DEF OutOrigin
  <2> QED BY <2>1, <1>2, SharedKept DEF OutOrigin
<1>10. SnapshotRows(c)'
  <2>1. IsInjective(out[c]) /\ \A e \in B!Elems(out[c]) :
          /\ e.sample <= msg
          /\ samples[e.sample].series = Shown[e.pos] /\ samples[e.sample].time \in wanted[c]
          /\ table[KeyOf(e.sample)] = e.sample
          /\ e.pos < p
    BY <1>1, <1>2, <1>4 DEF SnapshotRows, p
  <2>2. IsInjective(out'[c])
    <3>1. \A e \in B!Elems(out[c]) : e \notin B!Elems(r)
      BY <2>1, <1>2, <1>3
    <3> QED BY <3>1, <2>1, <1>2, <1>3, <1>5, InjectiveConcat
  <2>3. ASSUME NEW e \in B!Elems(out'[c])
        PROVE  /\ e.sample <= msg
               /\ samples[e.sample].series = Shown[e.pos] /\ samples[e.sample].time \in wanted[c]
               /\ table[KeyOf(e.sample)] = e.sample
               /\ e.pos < p + 1
    <3>1. CASE e \in B!Elems(out[c])
      <4>1. e.pos \in Nat
        BY <3>1, EntryTypes DEF Entries, Positions
      <4> QED BY <3>1, <4>1, <2>1, <1>2
    <3>2. CASE e \in B!Elems(r)
      BY <3>2, <1>2, <1>3, <1>5
    <3> QED BY <3>1, <3>2, <1>6
  <2>4. \A e \in B!Elems(out'[c]) : table'[KeyOf(e.sample)'] = e.sample
    BY <2>3 DEF SharedSame, KeyOf
  <2> QED BY <2>2, <2>3, <2>4, <1>2, <1>4 DEF SnapshotRows, SharedSame
<1>11. SnapshotGaps(c)'
  <2> SUFFICES ASSUME NEW q \in Positions, NEW t \in wanted[c],
                      table[<<Shown[q], t>>] # 0,
                      table[<<Shown[q], t>>] \notin SnapshotAt(c, q)',
                      NEW n \in SnapshotAt(c, q)'
               PROVE  n < table[<<Shown[q], t>>]
    BY <1>2 DEF SnapshotGaps, SharedSame
  <2>1. SnapshotAt(c, q)' = {e.sample : e \in {f \in B!Elems(out'[c]) : f.pos = q}}
        /\ SnapshotAt(c, q) = {e.sample : e \in {f \in B!Elems(out[c]) : f.pos = q}}
    BY <1>4 DEF SnapshotAt
  <2>2. CASE q = p
    <3>1. Entry(p, table[<<Shown[p], t>>]) \in B!Elems(out'[c])
      BY <2>2, <1>3, <1>6
    <3>2. table[<<Shown[p], t>>] \in SnapshotAt(c, q)'
      BY <3>1, <2>1, <2>2 DEF Entry
    <3> QED BY <3>2, <2>2
  <2>3. CASE q # p
    <3>1. {f \in B!Elems(out'[c]) : f.pos = q} = {f \in B!Elems(out[c]) : f.pos = q}
      BY <2>3, <1>3, <1>6
    <3> QED BY <3>1, <2>1, <1>1 DEF SnapshotGaps
  <2> QED BY <2>2, <2>3
<1> QED BY <1>4, <1>7, <1>8, <1>9, <1>10, <1>11, NothingInTransit DEF ConnPart, ConnInv

\* The storage refuses.
LEMMA RefuseStep ==
  ASSUME Known, SharedSame, NEW c \in Conn, ConnPart(c), Refuse(c)
  PROVE  ConnPart(c)'
<1>1. /\ Stage(c) /\ OutOrigin(c)
  BY KnowsStage
<1>2. /\ pc[c] = "load" /\ pc'[c] = "error"
      /\ UNCHANGED <<made, wanted, pos, out, handler, link, frames, seen, read>>
  BY DEF Refuse, Goto, Known, LocalTypeOK, wireVars, brokerVars
<1>3. c \notin made /\ Len(frames[c]) <= 1 /\ Len(frames[c]) \in Nat
  BY <1>1, <1>2, ConnTypes DEF Stage
<1>4. Stage(c)'
  BY <1>1, <1>2 DEF Stage
<1>5. FrameOrigin(c)' /\ FramesDistinct(c)' /\ LiveAfter(c)'
  BY <1>2, FramesKept DEF Done
<1>6. OutOrigin(c)'
  BY <1>1, <1>2, SharedKept DEF OutOrigin
<1>7. Snapshot(c)' = <<>>
  BY <1>2, <1>3 DEF Snapshot
<1> QED BY <1>3, <1>4, <1>5, <1>6, <1>7, EmptySnapshot, NothingInTransit
        DEF ConnPart, ConnInv

\* The registration: from here on the snapshot is what is older than it.
LEMMA JoinStep ==
  ASSUME Known, SharedSame, NEW c \in Conn, ConnPart(c), Join(c)
  PROVE  ConnPart(c)'
<1>1. /\ Stage(c) /\ OutOrigin(c) /\ SnapshotRows(c) /\ SnapshotGaps(c)
  BY KnowsStage
<1>2. /\ pc[c] = "join" /\ pc'[c] = "live" /\ made' = made \cup {c} /\ c \notin made
      /\ UNCHANGED <<wanted, pos, out, handler, link, frames, seen, read>>
  BY DEF Join, Goto, B!Subscribe, B!inboxes, Known, LocalTypeOK, wireVars
<1>3. Stage(c)'
  BY <1>1, <1>2 DEF Stage
<1>4. FrameOrigin(c)' /\ FramesDistinct(c)' /\ LiveAfter(c)'
  BY <1>2, FramesKept DEF Done
<1>5. OutOrigin(c)'
  BY <1>1, <1>2, EmptyElems DEF OutOrigin, Stage
<1>6. SnapshotRows(c)' /\ SnapshotGaps(c)'
  <2>1. Snapshot(c)' = Snapshot(c) /\ wanted'[c] = wanted[c] /\ pc'[c] # "load"
    BY <1>2 DEF Snapshot
  <2> QED BY <2>1, <1>1, SameSnapshot
<1>7. Transit(c)'
  BY <1>2, NothingInTransit
<1> QED BY <1>3, <1>4, <1>5, <1>6, <1>7 DEF ConnPart, ConnInv

\* The snapshot is sent.
LEMMA SendInitialStep ==
  ASSUME Known, SharedSame, NEW c \in Conn, ConnPart(c), SendInitial(c)
  PROVE  ConnPart(c)'
<1> DEFINE f == DataFrame(out[c])
<1>1. /\ Stage(c) /\ FrameOrigin(c) /\ OutOrigin(c) /\ FramesDistinct(c)
      /\ SnapshotRows(c) /\ SnapshotGaps(c)
  BY KnowsStage
<1>2. /\ pc[c] = "load" /\ pc'[c] = "join" /\ out'[c] = <<>> /\ Send(c, f)
      /\ UNCHANGED <<made, wanted, pos, read>>
  BY DEF SendInitial, Goto, Known, LocalTypeOK, brokerVars
<1>3. f \in Frames /\ f.entries = out[c]
  BY ConnTypes, FrameTypes DEF DataFrame
<1> HIDE DEF f
<1>4. /\ Wrote(c, f) \/ WroteNothing(c)
      /\ handler[c] = TRUE /\ link'[c] = link[c] /\ seen'[c] = seen[c]
  BY <1>2, <1>3, SendEffect
<1>5. /\ c \notin made /\ Len(frames[c]) = 1 /\ Snapshot(c) = out[c]
      /\ frames[c][1].entries = <<>>
  BY <1>1, <1>2, <1>4 DEF Stage, Snapshot
<1>6. \/ /\ Len(frames'[c]) = 2 /\ frames'[c][1] = frames[c][1] /\ frames'[c][2] = f
         /\ handler'[c]
      \/ Len(frames'[c]) = 1 /\ frames'[c] = frames[c] /\ ~ handler'[c]
  <2>1. CASE Wrote(c, f)
    BY <2>1, <1>5 DEF Wrote
  <2>2. CASE WroteNothing(c)
    BY <2>2, <1>5 DEF WroteNothing
  <2> QED BY <2>1, <2>2, <1>4
<1>7. Stage(c)'
  <2>1. frames'[c][1].entries = <<>>
    BY <1>5, <1>6
  <2>2. handler'[c] => Len(frames'[c]) = 2
    BY <1>6, Zenon
  <2>3. Len(frames'[c]) <= 2
    <3>1. Len(frames'[c]) \in {1, 2}
      BY <1>6, Zenon
    <3>2. \A k \in {1, 2} : k <= 2
      OBVIOUS
    <3> QED BY <3>1, <3>2, Zenon
  <2>4. link[c] # "none" /\ c \notin made
    BY <1>1, <1>2 DEF Stage
  <2> QED BY <2>1, <2>2, <2>3, <2>4, <1>2, <1>4 DEF Stage
<1>8. ASSUME NEW i \in 1..Len(frames'[c])
      PROVE  \/ frames'[c][i].entries = <<>>
             \/ i = 2 /\ frames'[c][i].entries = out[c]
  BY <1>3, <1>5, <1>6
<1>9. FrameOrigin(c)'
  <2>1. ASSUME NEW i \in 1..Len(frames'[c]), NEW e \in B!Elems(frames'[c][i].entries)
        PROVE  i <= 2 /\ e.sample <= Mark(c)'
    BY <1>1, <1>2, <1>6, <1>8, SharedKept, EmptyElems DEF OutOrigin
  <2> QED BY <2>1 DEF FrameOrigin
<1>10. OutOrigin(c)'
  BY <1>2, EmptyElems DEF OutOrigin
<1>11. FramesDistinct(c)'
  BY <1>1, <1>5, <1>8, EmptyElems DEF FramesDistinct, SnapshotRows
<1>12. LiveAfter(c)'
  BY <1>6 DEF LiveAfter
<1>13. SnapshotRows(c)' /\ SnapshotGaps(c)'
  <2>1. CASE Len(frames'[c]) = 2
    <3>1. Snapshot(c)' = Snapshot(c)
      BY <2>1, <1>2, <1>3, <1>5, <1>6 DEF Snapshot
    <3> QED BY <3>1, <1>1, <1>2, SameSnapshot
  <2>2. CASE Len(frames'[c]) = 1
    <3>1. Snapshot(c)' = <<>>
      BY <2>2, <1>2 DEF Snapshot
    <3> QED BY <3>1, EmptySnapshot
  <2> QED BY <2>1, <2>2, <1>6
<1> QED BY <1>5, <1>7, <1>9, <1>10, <1>11, <1>12, <1>13, NothingInTransit
        DEF ConnPart, ConnInv

\* A message is taken from the broker.
LEMMA TakeLiveStep ==
  ASSUME Known, SharedSame, NEW c \in Conn, ConnPart(c), TakeLive(c)
  PROVE  ConnPart(c)'
<1> DEFINE n == read[c] + 1
<1>1. /\ Stage(c) /\ FrameOrigin(c) /\ FramesDistinct(c)
      /\ SnapshotRows(c) /\ SnapshotGaps(c) /\ LiveAfter(c) /\ Transit(c)
  BY KnowsStage
<1>2. /\ read[c] \in Nat /\ read[c] <= Len(sent[c]) /\ Len(sent[c]) \in Nat /\ c \in Channels
  BY ConnTypes
<1>3. /\ pc[c] = "live" /\ read'[c] = n /\ n \in 1..Len(sent[c]) /\ c \in made
      /\ UNCHANGED <<made, wanted, pos, handler, link, frames, seen, sent>>
  <2>1. read'[c] = n
    BY <1>2 DEF TakeLive, B!Receive, Known, BrokerView
  <2> QED BY <2>1, <1>2
          DEF TakeLive, B!Receive, B!Unread, B!callers, wireVars
<1>4. PICK m \in Messages : m = sent[c][n]
  BY <1>3, Received
<1>5. \/ EntriesOf(m) = <<>> /\ pc'[c] = "live" /\ out'[c] = out[c]
      \/ pc'[c] = "send" /\ out'[c] = EntriesOf(m)
  BY <1>3, <1>4 DEF TakeLive, Known, LocalTypeOK
<1> HIDE DEF n
<1>6. out[c] = <<>> /\ EntriesOf(m)' = EntriesOf(m)
  BY <1>1, <1>3, SharedKept DEF Stage
<1>7. Stage(c)'
  BY <1>1, <1>3, <1>5, <1>6 DEF Stage
<1>8. FrameOrigin(c)'
  <2>1. Done(c) = read[c] /\ Done(c)' \in {read[c], read[c] + 1} /\ Mark(c)' = Mark(c)
    BY <1>2, <1>3, <1>5, SharedKept DEF Done, n
  <2> SUFFICES ASSUME NEW i \in 1..Len(frames[c]), NEW e \in B!Elems(frames[c][i].entries)
               PROVE  IF i <= 2 THEN e.sample <= Mark(c)
                      ELSE \E k \in 1..Done(c)' : e.sample = sent[c][k]
    BY <2>1, <1>3 DEF FrameOrigin
  <2>2. CASE i <= 2
    BY <2>2, <1>1 DEF FrameOrigin
  <2>3. CASE ~ (i <= 2)
    <3>1. PICK k \in 1..Done(c) : e.sample = sent[c][k]
      BY <2>3, <1>1 DEF FrameOrigin
    <3>2. k \in 1..Done(c)'
      BY <2>1, <1>2
    <3> QED BY <2>3, <3>1, <3>2
  <2> QED BY <2>2, <2>3
<1>9. OutOrigin(c)'
  <2>1. CASE pc'[c] = "live"
    BY <2>1, <1>5, <1>6, EmptyElems DEF OutOrigin
  <2>2. CASE pc'[c] = "send"
    <3>1. n > 0 /\ out'[c] = EntriesOf(m)
      BY <2>2, <1>3, <1>5
    <3> QED BY <3>1, <2>2, <1>3, <1>4, <1>6 DEF OutOrigin
  <2> QED BY <2>1, <2>2, <1>5
<1>10. FramesDistinct(c)' /\ LiveAfter(c)'
  BY <1>1, <1>3 DEF FramesDistinct, LiveAfter
<1>11. SnapshotRows(c)' /\ SnapshotGaps(c)'
  <2>1. Snapshot(c)' = Snapshot(c) /\ wanted'[c] = wanted[c] /\ pc'[c] # "load"
    BY <1>3, <1>5 DEF Snapshot
  <2> QED BY <2>1, <1>1, SameSnapshot
<1>12. Transit(c)'
  <2> SUFFICES ASSUME handler[c], NEW i \in 1..Len(sent[c]), ~ (i > n),
                      NEW e \in B!Elems(EntriesOf(sent[c][i])')
               PROVE  \/ e \in B!Elems(out'[c])
                      \/ \E f \in B!Elems(frames[c]) : e \in B!Elems(f.entries)
    BY <1>3 DEF Transit
  <2>1. PICK k \in Messages : k = sent[c][i]
    BY Received
  <2>2. EntriesOf(k)' = EntriesOf(k)
    BY SharedKept
  <2>3. e \in B!Elems(EntriesOf(sent[c][i]))
    BY <2>1, <2>2, <1>3
  <2>4. CASE i = n
    BY <2>3, <2>4, <1>4, <1>5, EmptyElems
  <2>5. CASE i # n
    <3>1. ~ (i > read[c])
      BY <2>5, <1>2 DEF n
    <3> QED BY <3>1, <2>3, <1>1, <1>6, EmptyElems DEF Transit
  <2> QED BY <2>4, <2>5
<1> QED BY <1>7, <1>8, <1>9, <1>10, <1>11, <1>12 DEF ConnPart, ConnInv

\* It is sent, after all that was sent before it.
LEMMA SendLiveStep ==
  ASSUME Known, SharedSame, NEW c \in Conn, ConnPart(c), SendLive(c)
  PROVE  ConnPart(c)'
<1> DEFINE f == DataFrame(out[c])
           n == Len(frames[c])
           k == read[c]
<1>1. /\ Stage(c) /\ FrameOrigin(c) /\ OutOrigin(c) /\ FramesDistinct(c)
      /\ SnapshotRows(c) /\ SnapshotGaps(c) /\ LiveAfter(c) /\ Transit(c)
  BY KnowsStage
<1>2. /\ pc[c] = "send" /\ pc'[c] = "live" /\ out'[c] = <<>> /\ Send(c, f)
      /\ UNCHANGED <<made, wanted, pos, read, sent>>
  BY DEF SendLive, Goto, Known, LocalTypeOK, brokerVars
<1>3. f \in Frames /\ f.entries = out[c]
  BY ConnTypes, FrameTypes DEF DataFrame
<1> HIDE DEF f
<1>4. /\ Wrote(c, f) \/ WroteNothing(c)
      /\ handler[c] = TRUE /\ link'[c] = link[c] /\ seen'[c] = seen[c]
  BY <1>2, <1>3, SendEffect
<1>5. n >= 2 /\ n \in Nat /\ c \in made /\ link[c] # "none" /\ frames[c][1].entries = <<>>
  BY <1>1, <1>2, <1>4, ConnTypes DEF Stage
<1>6. k \in 1..Len(sent[c]) /\ out[c] = EntriesOf(sent[c][k]) /\ k \in Nat
  BY <1>1, <1>2, ConnTypes DEF OutOrigin
<1>7. PICK m \in Messages : m = sent[c][k]
  BY <1>6, Received
<1>8. Mark(c) < m /\ m \in Nat /\ Mark(c) \in Nat
  BY <1>6, <1>7, Received, ConnTypes DEF Messages
<1>9. /\ out[c] \in Seq(Entries) /\ IsInjective(out[c])
      /\ \A e \in B!Elems(out[c]) : e.sample = m
  BY <1>6, <1>7, EntriesFacts
<1>10. Done(c) = k - 1 /\ Done(c)' = k /\ Mark(c)' = Mark(c)
  BY <1>2, SharedKept DEF Done
<1> HIDE DEF n, k
<1>11. ASSUME NEW i \in 1..Len(frames'[c])
       PROVE  \/ i \in 1..n /\ frames'[c][i] = frames[c][i]
              \/ i = n + 1 /\ frames'[c][i].entries = out[c]
  <2>1. CASE Wrote(c, f)
    BY <2>1, <1>3, FramesAfter DEF n
  <2>2. CASE WroteNothing(c)
    BY <2>2 DEF WroteNothing, n
  <2> QED BY <2>1, <2>2, <1>4
<1>12. /\ Len(frames'[c]) \in Nat /\ n <= Len(frames'[c])
       /\ \A i \in 1..n : frames'[c][i] = frames[c][i]
  <2>1. CASE Wrote(c, f)
    BY <2>1, <1>5 DEF Wrote, n
  <2>2. CASE WroteNothing(c)
    BY <2>2, <1>5 DEF WroteNothing, n
  <2> QED BY <2>1, <2>2, <1>4
<1>13. Stage(c)'
  <2>1. /\ Len(frames'[c]) >= 2 /\ frames'[c][1].entries = <<>>
    BY <1>5, <1>12
  <2> QED BY <2>1, <1>1, <1>2, <1>4, <1>5 DEF Stage
<1>14. ASSUME NEW i \in 1..n, i > 2, NEW e \in B!Elems(frames[c][i].entries)
       PROVE  \E j \in 1..(k - 1) : e.sample = sent[c][j]
  BY <1>1, <1>10, <1>14 DEF FrameOrigin, n
<1>15. FrameOrigin(c)'
  <2> SUFFICES ASSUME NEW i \in 1..Len(frames'[c]), NEW e \in B!Elems(frames'[c][i].entries)
               PROVE  IF i <= 2 THEN e.sample <= Mark(c)
                      ELSE \E j \in 1..k : e.sample = sent[c][j]
    BY <1>2, <1>10 DEF FrameOrigin
  <2>1. CASE i \in 1..n /\ frames'[c][i] = frames[c][i] /\ i <= 2
    BY <2>1, <1>1 DEF FrameOrigin, n
  <2>2. CASE i \in 1..n /\ frames'[c][i] = frames[c][i] /\ ~ (i <= 2)
    <3>1. PICK j \in 1..(k - 1) : e.sample = sent[c][j]
      BY <2>2, <1>14
    <3>2. j \in 1..k
      BY <1>6
    <3> QED BY <3>1, <3>2, <2>2
  <2>3. CASE i = n + 1 /\ frames'[c][i].entries = out[c]
    <3>1. e.sample = sent[c][k] /\ k \in 1..k /\ ~ (i <= 2)
      BY <2>3, <1>5, <1>6, <1>7, <1>9 DEF n
    <3> QED BY <3>1
  <2> QED BY <2>1, <2>2, <2>3, <1>11
<1>16. OutOrigin(c)'
  BY <1>2, EmptyElems DEF OutOrigin
<1>17. FramesDistinct(c)'
  BY <1>1, <1>9, <1>11 DEF FramesDistinct, n
<1>18. LiveAfter(c)'
  <2> SUFFICES ASSUME NEW i \in 1..Len(frames'[c]), NEW j \in 1..Len(frames'[c]),
                      2 < j, i < j,
                      NEW a \in B!Elems(frames'[c][i].entries),
                      NEW b \in B!Elems(frames'[c][j].entries)
               PROVE  a.sample < b.sample
    BY DEF LiveAfter
  <2>1. CASE j \in 1..n /\ frames'[c][j] = frames[c][j]
    <3>1. i \in 1..n /\ frames'[c][i] = frames[c][i]
      BY <2>1, <1>5, <1>12
    <3> QED BY <2>1, <3>1, <1>1 DEF LiveAfter, n
  <2>2. CASE j = n + 1 /\ frames'[c][j].entries = out[c]
    <3>1. b.sample = m
      BY <2>2, <1>9
    <3>2. i \in 1..n /\ frames'[c][i] = frames[c][i]
      BY <2>2, <1>5, <1>12
    <3>3. a.sample \in Nat
      BY <3>2, EntryTypes DEF Entries, Messages, n
    <3>4. CASE i <= 2
      <4>1. a.sample <= Mark(c)
        BY <3>2, <3>4, <1>1 DEF FrameOrigin, n
      <4> QED BY <3>1, <3>3, <4>1, <1>8
    <3>5. CASE ~ (i <= 2)
      <4>1. PICK l \in 1..(k - 1) : a.sample = sent[c][l]
        BY <3>2, <3>5, <1>14
      <4>2. l \in 1..Len(sent[c]) /\ l < k
        BY <1>6, ConnTypes
      <4>3. sent[c][l] < sent[c][k]
        BY <4>2, <1>6, ConnTypes DEF Known, BrokerView
      <4> QED BY <4>1, <4>3, <3>1, <1>7
    <3> QED BY <3>4, <3>5
  <2> QED BY <2>1, <2>2, <1>11
<1>19. SnapshotRows(c)' /\ SnapshotGaps(c)'
  <2>1. frames'[c][2] = frames[c][2] /\ Len(frames'[c]) >= 2
    BY <1>5, <1>12
  <2>2. Snapshot(c)' = Snapshot(c) /\ wanted'[c] = wanted[c] /\ pc'[c] # "load"
    BY <2>1, <1>2, <1>5 DEF Snapshot, n
  <2> QED BY <2>2, <1>1, SameSnapshot
<1>20. Transit(c)'
  <2> SUFFICES ASSUME handler'[c], NEW i \in 1..Len(sent[c]), ~ (i > k),
                      NEW e \in B!Elems(EntriesOf(sent[c][i])')
               PROVE  \E g \in B!Elems(frames'[c]) : e \in B!Elems(g.entries)
    BY <1>2 DEF Transit, k
  <2>1. PICK l \in Messages : l = sent[c][i]
    BY Received
  <2>2. EntriesOf(l)' = EntriesOf(l)
    BY SharedKept
  <2>3. e \in B!Elems(EntriesOf(sent[c][i]))
    BY <2>1, <2>2, <1>2
  <2>4. Wrote(c, f)
    BY <1>4 DEF WroteNothing
  <2>5. \/ e \in B!Elems(out[c])
        \/ \E g \in B!Elems(frames[c]) : e \in B!Elems(g.entries)
    BY <2>3, <1>1, <1>4 DEF Transit, k
  <2>6. CASE e \in B!Elems(out[c])
    <3>1. n + 1 \in 1..Len(frames'[c]) /\ frames'[c][n + 1] = f
      BY <2>4, <1>5 DEF Wrote, n
    <3>2. f \in B!Elems(frames'[c])
      BY <3>1 DEF B!Elems
    <3> QED BY <3>2, <2>6, <1>3
  <2>7. ASSUME NEW g \in B!Elems(frames[c]), e \in B!Elems(g.entries)
        PROVE  g \in B!Elems(frames'[c])
    <3>1. PICK j \in 1..n : g = frames[c][j]
      BY DEF B!Elems, n
    <3>2. j \in 1..Len(frames'[c]) /\ frames'[c][j] = g
      BY <3>1, <1>5, <1>12
    <3> QED BY <3>2 DEF B!Elems
  <2> QED BY <2>5, <2>6, <2>7
<1> QED BY <1>13, <1>15, <1>16, <1>17, <1>18, <1>19, <1>20 DEF ConnPart, ConnInv

\* Every step of a subscription keeps what holds of it.
LEMMA SubscribeStep ==
  ASSUME Known, SharedSame, NEW c \in Conn, ConnPart(c), Subscribe(c)
  PROVE  ConnPart(c)'
  BY SendHelloStep, LoadStep, RefuseStep, SendErrorStep, SendInitialStep, JoinStep,
     TakeLiveStep, SendLiveStep DEF Subscribe

-----------------------------------------------------------------------------
(***************************************************************************)
(* What the browser's steps do to its connection.                          *)
(***************************************************************************)
\* The websocket is accepted and its handler starts.
LEMMA AcceptStep ==
  ASSUME Known, SharedSame, NEW c \in Conn, ConnPart(c), NEW v \in Viewer, Connect(v, c)
  PROVE  ConnPart(c)'
<1>1. Stage(c)
  BY KnowsStage
<1>2. /\ link[c] = "none" /\ link'[c] = "open" /\ handler'[c] = TRUE /\ pc'[c] = "hello"
      /\ UNCHANGED <<made, pos, out, frames, seen, read>>
  BY DEF Connect, Accept, Known, LocalTypeOK, brokerVars
<1>3. pc[c] = "none" /\ c \notin made /\ Len(frames[c]) = 0 /\ out[c] = <<>>
  BY <1>1, <1>2 DEF Stage
<1>4. Stage(c)'
  BY <1>1, <1>2, <1>3 DEF Stage
<1>5. FrameOrigin(c)' /\ FramesDistinct(c)' /\ LiveAfter(c)'
  BY <1>2, <1>3 DEF FrameOrigin, FramesDistinct, LiveAfter
<1>6. OutOrigin(c)'
  BY <1>2, <1>3, EmptyElems DEF OutOrigin
<1>7. Snapshot(c)' = <<>>
  BY <1>2, <1>3 DEF Snapshot
<1> QED BY <1>3, <1>4, <1>5, <1>6, <1>7, EmptySnapshot, NothingInTransit
        DEF ConnPart, ConnInv

\* The steps that have to do with one connection only.
LEMMA SharedSteps ==
  ASSUME NEW c \in Conn,
         Subscribe(c) \/ \E v \in Viewer : Connect(v, c) \/ OnMessage(v) \/ OnClose(v)
  PROVE  SharedSame
<1>1. CASE Subscribe(c)
  BY <1>1, Zenon DEF Subscribe, SendHello, Load, Refuse, SendError, SendInitial, Join, TakeLive,
     SendLive, B!Subscribe, B!Receive, B!channels, B!loop, B!callers, B!inboxes, B!history,
     brokerVars, recorderVars, SharedSame
<1>2. ASSUME NEW v \in Viewer, Connect(v, c) \/ OnMessage(v) \/ OnClose(v)
      PROVE  SharedSame
  BY <1>2, Zenon DEF Connect, OnMessage, OnClose, brokerVars, recorderVars, SharedSame
<1> QED BY <1>1, <1>2

\* A step is one of the subscription's own, or the start of it, or leaves it
\* alone.
LEMMA OwnSteps ==
  ASSUME Known, \A v \in Viewer : SocketOK(v), \A d \in Conn : Stage(d),
         [Next]_vars, NEW c \in Conn
  PROVE  \/ SharedSame /\ (Subscribe(c) \/ \E v \in Viewer : Connect(v, c))
         \/ LocalSame(c)
<1>0. /\ c # DbCh /\ c \in Channels /\ read \in [Channels -> Nat]
      /\ pc \in [Conn -> {"none", "hello", "load", "error", "ended", "join",
                          "live", "send"}]
      /\ wanted \in [Conn -> SUBSET Time]
      /\ pos \in [Conn -> 1..(Len(Shown) + 1)]
      /\ out \in [Conn -> Seq(Entries)]
      /\ handler \in [Conn -> BOOLEAN]
      /\ link \in [Conn -> {"none", "open", "broken"}]
      /\ frames \in [Conn -> Seq(Frames)]
      /\ seen \in [Conn -> Nat]
  BY ConnTypes DEF Known, LocalTypeOK, BrokerView
<1>1. UNCHANGED <<read, made, subVars, wireVars>> => LocalSame(c)
  BY DEF LocalSame, subVars, wireVars
<1>2. CASE \E s \in Series, t \in Time : CreateValue(s, t)
  BY <1>1, <1>2 DEF CreateValue, B!Publish, B!inboxes
<1>3. CASE BrokerStep
  <2>1. CASE B!Register \/ B!TakeMessage
    BY <2>1, <1>1, <1>3 DEF BrokerStep, B!Register, B!TakeMessage, B!callers, B!inboxes
  <2>2. ASSUME NEW d \in Channels, B!Offer(d) PROVE UNCHANGED <<read, made>>
    BY <2>2 DEF B!Offer, B!callers
  <2> QED BY <2>1, <2>2, <1>1, <1>3 DEF BrokerStep, Channels
<1>4. CASE DbSubscribe
  BY <1>0, <1>4 DEF DbSubscribe, B!Subscribe, B!inboxes, LocalSame, subVars, wireVars
<1>5. CASE DbTake
  BY <1>0, <1>5 DEF DbTake, B!Receive, B!callers, LocalSame, subVars, wireVars
<1>6. CASE DbInsert \/ WriterStep \/ UNCHANGED vars
  BY <1>1, <1>6 DEF DbInsert, WriterStep, brokerVars, vars
<1>7. ASSUME NEW d \in Conn, Subscribe(d), d # c PROVE LocalSame(c)
  <2>1. ASSUME NEW f, Send(d, f)
        PROVE  UNCHANGED <<frames[c], handler[c], link, seen>>
    BY <2>1, <1>0, <1>7 DEF Send
  <2>2. CASE SendHello(d) \/ SendError(d) \/ SendInitial(d) \/ SendLive(d)
    BY <2>1, <2>2, <1>0, <1>7
       DEF SendHello, SendError, SendInitial, SendLive, Goto, LocalSame, brokerVars
  <2>3. CASE Load(d) \/ Refuse(d)
    BY <2>3, <1>0, <1>7 DEF Load, Refuse, Goto, LocalSame, brokerVars, wireVars
  <2>4. CASE Join(d)
    BY <2>4, <1>0, <1>7 DEF Join, Goto, B!Subscribe, B!inboxes, LocalSame, wireVars
  <2>5. CASE TakeLive(d)
    BY <2>5, <1>0, <1>7 DEF TakeLive, B!Receive, B!callers, LocalSame, wireVars
  <2> QED BY <2>2, <2>3, <2>4, <2>5, <1>7 DEF Subscribe
<1>8. ASSUME NEW v \in Viewer, NEW d \in Conn, Connect(v, d), d # c PROVE LocalSame(c)
  <2>1. /\ link' = [link EXCEPT ![d] = "open"] /\ handler' = [handler EXCEPT ![d] = TRUE]
        /\ pc' = [pc EXCEPT ![d] = "hello"] /\ wanted' = [wanted EXCEPT ![d] = Window(v)]
        /\ UNCHANGED <<read, made, pos, out, frames, seen>>
    BY <1>8 DEF Connect, Accept, brokerVars
  <2>2. link'[c] = link[c] /\ handler'[c] = handler[c] /\ pc'[c] = pc[c] /\ wanted'[c] = wanted[c]
    BY <2>1, <1>0, <1>8
  <2> QED BY <2>1, <2>2 DEF LocalSame
<1>9. ASSUME NEW v \in Viewer, OnMessage(v) PROVE LocalSame(c)
  <2>1. seen[sock[v]] < Len(frames[sock[v]]) /\ sock[v] \in Conn
        /\ seen' = [seen EXCEPT ![sock[v]] = @ + 1]
        /\ UNCHANGED <<read, made, subVars, handler, link, frames>>
    BY <1>9 DEF OnMessage, brokerVars, Known, LocalTypeOK
  <2>2. pc[c] = "none" => c # sock[v]
    <3> SUFFICES ASSUME pc[c] = "none", c = sock[v] PROVE FALSE
      OBVIOUS
    <3>1. Len(frames[c]) = 0 /\ seen[c] = 0
      BY DEF Stage
    <3> QED BY <3>1, <2>1
  <2> QED BY <2>1, <2>2, <1>0 DEF LocalSame, subVars
<1>10. ASSUME NEW v \in Viewer, OnClose(v) PROVE LocalSame(c)
  <2>1. link[sock[v]] # "none" /\ link' = [link EXCEPT ![sock[v]] = "broken"]
        /\ UNCHANGED <<read, made, subVars, handler, seen, frames>>
    BY <1>10 DEF OnClose, brokerVars, SocketOK
  <2> QED BY <2>1, <1>0 DEF LocalSame, subVars
<1>11. ASSUME Subscribe(c) \/ \E v \in Viewer : Connect(v, c) PROVE SharedSame
  BY <1>11, SharedSteps
<1> QED BY <1>2, <1>3, <1>4, <1>5, <1>6, <1>7, <1>8, <1>9, <1>10, <1>11 DEF Next

\* So every step does, of whomever.
LEMMA NextConn ==
  ASSUME Known, BrokerView', Grows, TableGrows, [Next]_vars,
         \A v \in Viewer : SocketOK(v), \A d \in Conn : ConnPart(d),
         NEW c \in Conn
  PROVE  ConnPart(c)'
<1>1. \A d \in Conn : Stage(d)
  BY KnowsStage
<1>2. CASE LocalSame(c)
  BY <1>2, ConnKept
<1>3. CASE SharedSame /\ (Subscribe(c) \/ \E v \in Viewer : Connect(v, c))
  BY <1>3, SubscribeStep, AcceptStep
<1> QED BY <1>1, <1>2, <1>3, OwnSteps

-----------------------------------------------------------------------------
(***************************************************************************)
(* The browsers.                                                           *)
(***************************************************************************)
\* A browser's websocket is open and its own.
Sockets ==
  \A v \in Viewer :
    /\ sock[v] # NoConn => link[sock[v]] = "open"
    /\ \A w \in Viewer : sock[v] # NoConn /\ sock[w] = sock[v] => w = v

CacheOld(v) == \A e \in B!Elems(got[v]) : e.sample <= msg

NoneTwice(v) == date[v] = {} => IsInjective(got[v])

CachePart(v) == CacheOld(v) /\ CacheOrigin(v) /\ NoneTwice(v)

\* What the invariant says of a browser, by part.
LEMMA SocketParts ==
  (\A v \in Viewer : SocketOK(v)) <=> Sockets /\ \A v \in Viewer : CacheOld(v)
  BY DEF SocketOK, Sockets, CacheOld

BrowserStep(v) == OnMessage(v) \/ OnClose(v) \/ \E c \in Conn : Connect(v, c)

\* What the other steps leave to the browsers.
LEMMA ServerSteps ==
  ASSUME Known, [Next]_vars, ~ \E v \in Viewer : BrowserStep(v)
  PROVE  /\ UNCHANGED <<sock, got, date, link, seen, wanted>>
         /\ \A c \in Conn : \A i \in 1..Len(frames[c]) : frames'[c][i] = frames[c][i]
<1>1. CASE UNCHANGED <<subVars, wireVars, viewerVars>>
  BY <1>1 DEF subVars, wireVars, viewerVars
<1>2. CASE \E s \in Series, t \in Time : CreateValue(s, t)
  BY <1>1, <1>2 DEF CreateValue
<1>3. CASE BrokerStep \/ DbSubscribe \/ DbTake \/ DbInsert \/ WriterStep \/ UNCHANGED vars
  BY <1>1, <1>3 DEF BrokerStep, DbSubscribe, DbTake, DbInsert, WriterStep, vars
<1>4. ASSUME NEW d \in Conn, Subscribe(d)
      PROVE  /\ UNCHANGED <<sock, got, date, link, seen, wanted>>
             /\ \A c \in Conn : \A i \in 1..Len(frames[c]) : frames'[c][i] = frames[c][i]
  <2>1. ASSUME NEW f \in Frames, Send(d, f)
        PROVE  /\ UNCHANGED <<link, seen>>
               /\ \A c \in Conn : \A i \in 1..Len(frames[c]) : frames'[c][i] = frames[c][i]
    <3>1. \A i \in 1..Len(frames[d]) : frames'[d][i] = frames[d][i]
      BY <2>1, SendEffect DEF Wrote, WroteNothing
    <3>2. \A c \in Conn : c # d => frames'[c] = frames[c]
      BY <2>1 DEF Send, Known, LocalTypeOK
    <3> QED BY <2>1, <3>1, <3>2, SendCases
  <2>2. CASE SendHello(d)
    BY <2>1, <2>2, FrameTypes DEF SendHello, viewerVars
  <2>3. CASE SendError(d)
    BY <2>1, <2>3, FrameTypes DEF SendError, viewerVars
  <2>4. CASE SendInitial(d) \/ SendLive(d)
    <3>1. DataFrame(out[d]) \in Frames
      BY ConnTypes, FrameTypes
    <3> QED BY <2>1, <2>4, <3>1 DEF SendInitial, SendLive, viewerVars
  <2>5. CASE Load(d) \/ Refuse(d) \/ Join(d) \/ TakeLive(d)
    BY <2>5 DEF Load, Refuse, Join, TakeLive, wireVars, viewerVars
  <2> QED BY <2>2, <2>3, <2>4, <2>5, <1>4 DEF Subscribe
<1> QED BY <1>2, <1>3, <1>4 DEF Next, BrowserStep

\* No step breaks that.
LEMMA NextSockets ==
  ASSUME Known, Sockets, [Next]_vars
  PROVE  Sockets'
<1>0. /\ sock \in [Viewer -> Conn \cup {NoConn}]
      /\ link \in [Conn -> {"none", "open", "broken"}]
  BY DEF Known, LocalTypeOK
<1>1. CASE ~ \E v \in Viewer : BrowserStep(v)
  BY <1>1, ServerSteps DEF Sockets
<1>2. ASSUME NEW v \in Viewer, OnMessage(v) PROVE Sockets'
  BY <1>2 DEF OnMessage, Sockets
<1>3. ASSUME NEW v \in Viewer, OnClose(v) PROVE Sockets'
  <2>1. sock[v] \in Conn /\ sock' = [sock EXCEPT ![v] = NoConn]
        /\ link' = [link EXCEPT ![sock[v]] = "broken"]
    BY <1>0, <1>3 DEF OnClose
  <2> QED BY <2>1, <1>0 DEF Sockets
<1>4. ASSUME NEW v \in Viewer, NEW c \in Conn, Connect(v, c) PROVE Sockets'
  <2>1. link[c] = "none" /\ link' = [link EXCEPT ![c] = "open"] /\ sock' = [sock EXCEPT ![v] = c]
    BY <1>4 DEF Connect, Accept
  <2>2. \A w \in Viewer : sock[w] # c
    BY <2>1, <1>0 DEF Sockets
  <2> QED BY <2>1, <2>2, <1>0 DEF Sockets
<1> QED BY <1>1, <1>2, <1>3, <1>4 DEF BrowserStep

\* What is in a cache is in an entry.
LEMMA CacheTypes ==
  ASSUME Known, NEW v \in Viewer
  PROVE  /\ got[v] \in Seq(Entries) /\ Len(got[v]) \in Nat
         /\ \A e \in B!Elems(got[v]) : e \in Entries /\ e.sample \in Nat
<1> DEFINE Y == Entries
<1>1. got[v] \in Seq(Y)
  BY DEF Known, LocalTypeOK
<1>2. ASSUME NEW e \in B!Elems(got[v]) PROVE e \in Y
  <2> HIDE DEF Y
  <2>1. PICK i \in 1..Len(got[v]) : e = got[v][i]
    BY DEF B!Elems
  <2> QED BY <2>1, <1>1, ElementOfSeq
<1>3. Len(got[v]) \in Nat
  <2> HIDE DEF Y
  <2> QED BY <1>1, LenProperties
<1> QED BY <1>1, <1>2, <1>3 DEF Entries, Messages

\* A cache nothing is added to.
LEMMA CacheKept ==
  ASSUME Known, BrokerView', Grows, NEW v \in Viewer, CachePart(v),
         got'[v] = got[v], date'[v] = date[v], sock'[v] = sock[v],
         \A c \in Conn : c = sock[v] =>
           /\ wanted'[c] = wanted[c] /\ seen'[c] = seen[c]
           /\ \A i \in 1..seen[c] : frames'[c][i] = frames[c][i]
  PROVE  CachePart(v)'
<1>1. CacheOld(v)'
  <2>1. msg <= msg' /\ msg' \in Nat /\ msg \in Nat
    BY DEF Grows, BrokerGrows, BrokerView, Known
  <2>2. \A e \in B!Elems(got[v]) : e.sample <= msg /\ e.sample \in Nat
    BY CacheTypes DEF CachePart, CacheOld
  <2> QED BY <2>1, <2>2 DEF CacheOld
<1>2. NoneTwice(v)'
  BY DEF CachePart, NoneTwice
<1>3. CacheOrigin(v)'
  <2> SUFFICES ASSUME date[v] = {}, sock[v] # NoConn, NEW e \in B!Elems(got[v])
               PROVE  \/ \E i \in 1..seen'[sock[v]] :
                           e \in B!Elems(frames'[sock[v]][i].entries)
                      \/ /\ samples'[e.sample].time \notin wanted'[sock[v]]
                         /\ e.sample <= Mark(sock[v])'
    BY DEF CacheOrigin
  <2>1. sock[v] \in Conn
    BY DEF Known, LocalTypeOK
  <2>2. PICK c \in Conn : c = sock[v]
    BY <2>1
  <2>3. /\ wanted'[c] = wanted[c] /\ seen'[c] = seen[c]
        /\ \A i \in 1..seen[c] : frames'[c][i] = frames[c][i]
    BY <2>2
  <2>4. CASE \E i \in 1..seen[c] : e \in B!Elems(frames[c][i].entries)
    <3>1. PICK i \in 1..seen[c] : e \in B!Elems(frames[c][i].entries)
      BY <2>4
    <3>2. i \in 1..seen'[c] /\ frames'[c][i] = frames[c][i]
      BY <2>3
    <3> QED BY <3>1, <3>2, <2>2
  <2>5. CASE samples[e.sample].time \notin wanted[c] /\ e.sample <= Mark(c)
    <3>1. e.sample \in 1..published
      BY ConnTypes, CacheTypes DEF CachePart, CacheOld, Entries, Messages
    <3>2. samples'[e.sample] = samples[e.sample]
      BY <3>1 DEF Grows
    <3>3. e.sample <= Mark(c)'
      BY <2>5, MarkGrows, ConnTypes, CacheTypes
    <3>4. Mark(c)' = Mark(sock[v])'
      BY <2>2
    <3> QED BY <3>2, <3>3, <2>2, <2>3, <2>5
  <2> QED BY <2>2, <2>4, <2>5 DEF CachePart, CacheOrigin
<1> QED BY <1>1, <1>2, <1>3 DEF CachePart

\* Times have a greatest one.
LEMMA TimeBound == \E n \in Nat : \A t \in Time : t <= n
<1>1. Time \subseteq Nat /\ IsFiniteSet(Time)
  OBVIOUS
<1> DEFINE s == Ascending(Time)
           n == Len(s)
<1>2. s \in Seq(Time) /\ B!Elems(s) = Time /\ \A i, j \in 1..n : i < j => s[i] < s[j]
  BY <1>1, AscendingFacts
<1>3. n \in Nat
  BY <1>2, LenProperties
<1> HIDE DEF s
<1>4. CASE n = 0
  BY <1>2, <1>4 DEF B!Elems
<1>5. CASE n # 0
  <2>1. n \in 1..Len(s)
    BY <1>3, <1>5
  <2>2. s[n] \in Time
    BY <2>1, <1>2, ElementOfSeq
  <2>3. s[n] \in Nat
    BY <2>2, <1>1
  <2>4. ASSUME NEW t \in Time PROVE t <= s[n]
    <3>1. PICK i \in 1..n : t = s[i]
      BY <1>2 DEF B!Elems
    <3>2. CASE i = n
      BY <3>1, <3>2, <2>1
    <3>3. CASE i # n
      <4>1. i < n /\ n \in 1..n
        BY <3>3, <1>3
      <4>2. s[i] < s[n]
        BY <4>1, <1>2
      <4> QED BY <3>1, <4>2, <2>3, <1>1
    <3> QED BY <3>2, <3>3
  <2> QED BY <2>3, <2>4
<1> QED BY <1>4, <1>5

\* The request of a reconnect asks for nothing that is as old as the cache.
LEMMA WindowIsNew ==
  ASSUME Known, NEW v \in Viewer, date[v] = {}, CacheOld(v), NEW e \in B!Elems(got[v])
  PROVE  samples[e.sample].time \notin Window(v)
<1> DEFINE T == {samples[got[v][i].sample].time : i \in 1..Len(got[v])} \cup {0}
           time == samples[e.sample].time
<1>1. ASSUME NEW i \in 1..Len(got[v]) PROVE samples[got[v][i].sample].time \in Time
  <2>1. got[v][i] \in B!Elems(got[v])
    BY DEF B!Elems
  <2>2. got[v][i].sample \in 1..published
    BY <2>1, CacheTypes DEF CacheOld, Entries, Messages, Known, BrokerView
  <2> QED BY <2>2, KeyType, LocalTypeParts DEF Known
<1>2. T \subseteq Time \cup {0} /\ Time \subseteq Nat /\ 0 \notin Time
  BY <1>1
<1>3. time \in T /\ time \in Time
  <2>1. PICK i \in 1..Len(got[v]) : e = got[v][i]
    BY DEF B!Elems
  <2> QED BY <2>1, <1>1
<1>4. LastPoint(v) = Max(T)
  BY DEF LastPoint
<1> HIDE DEF T, time
<1>5. PICK n \in Nat : \A t \in Time : t <= n
  BY TimeBound
<1>6. T \subseteq Nat /\ T # {} /\ \A x \in T : x <= n
  BY <1>2, <1>3, <1>5
<1>7. Max(T) \in T /\ \A x \in T : x <= Max(T)
  BY <1>6, GreatestNumber
<1> DEFINE last == LastPoint(v)
<1>8. last \in Nat /\ time <= last /\ time \in Nat /\ time # 0
  <2>1. time <= Max(T) /\ Max(T) \in Nat
    BY <1>3, <1>6, <1>7
  <2>2. time \in Nat /\ time # 0
    BY <1>2, <1>3
  <2> QED BY <2>1, <2>2, <1>4
<1> HIDE DEF last
<1>9. time < Start(last)
  BY <1>8 DEF Start
<1>10. Window(v) = {t \in Time : t >= Start(last)}
  BY DEF Window, last
<1>11. Start(last) \in Nat
  BY <1>8 DEF Start
<1> QED BY <1>8, <1>9, <1>10, <1>11 DEF time

\* A reconnect asks only for what is newer than the cache.
LEMMA ConnectCache ==
  ASSUME Known, SharedSame, NEW v \in Viewer, CachePart(v), NEW c \in Conn, Stage(c),
         Connect(v, c)
  PROVE  CachePart(v)'
<1>1. /\ link[c] = "none" /\ sock'[v] = c /\ wanted'[c] = Window(v)
      /\ UNCHANGED <<got, date>>
  BY DEF Connect, Accept, Known, LocalTypeOK
<1>2. c \notin made
  BY <1>1 DEF Stage
<1>3. Mark(c)' = msg
  BY <1>2, NotMade, SharedKept
<1>4. CacheOrigin(v)'
  <2> SUFFICES ASSUME date[v] = {}, NEW e \in B!Elems(got[v])
               PROVE  samples'[e.sample].time \notin wanted'[c] /\ e.sample <= Mark(c)'
    BY <1>1 DEF CacheOrigin
  <2>1. CacheOld(v)
    BY DEF CachePart
  <2>2. samples'[e.sample].time \notin Window(v)
    BY <2>1, WindowIsNew DEF SharedSame
  <2> QED BY <2>1, <2>2, <1>1, <1>3 DEF CacheOld
<1>5. CacheOld(v)' /\ NoneTwice(v)'
  BY <1>1 DEF CachePart, CacheOld, NoneTwice, SharedSame
<1> QED BY <1>4, <1>5 DEF CachePart

\* A closed websocket brings nothing more.
LEMMA CloseCache ==
  ASSUME Known, SharedSame, NEW v \in Viewer, CachePart(v), OnClose(v)
  PROVE  CachePart(v)'
<1>1. sock'[v] = NoConn /\ UNCHANGED <<got, date>>
  BY DEF OnClose, Known, LocalTypeOK
<1> QED BY <1>1 DEF CachePart, CacheOld, CacheOrigin, NoneTwice, SharedSame

\* What a frame brings is not in the cache: the snapshot because it was asked
\* for as newer, a live message because it is newer than all before it.
LEMMA MessageCache ==
  ASSUME Known, SharedSame, NEW v \in Viewer, CachePart(v), OnMessage(v),
         \A d \in Conn : ConnPart(d)
  PROVE  CachePart(v)'
<1>1. sock[v] \in Conn
  BY DEF OnMessage, Known, LocalTypeOK
<1>2. PICK c \in Conn : c = sock[v]
  BY <1>1
<1> DEFINE j == seen[c] + 1
           new == frames[c][j].entries
<1>3. /\ seen[c] < Len(frames[c]) /\ seen'[c] = j /\ got'[v] = got[v] \o new
      /\ UNCHANGED <<frames, sock, date, wanted>>
  BY <1>2 DEF OnMessage, Known, LocalTypeOK, subVars
<1>4. seen[c] \in Nat /\ j \in 1..Len(frames[c]) /\ Len(frames[c]) \in Nat
  BY <1>3, ConnTypes
<1>5. /\ Stage(c) /\ FrameOrigin(c) /\ FramesDistinct(c) /\ SnapshotRows(c) /\ LiveAfter(c)
  BY KnowsStage
<1>6. new \in Seq(Entries) /\ got[v] \in Seq(Entries) /\ IsInjective(new)
      /\ \A e \in B!Elems(new) : e.sample \in Nat
  <2>1. frames[c][j] \in Frames
    BY <1>4, EntryTypes
  <2>2. \A e \in B!Elems(new) : e \in Entries
    BY <1>4, EntryTypes
  <2>3. new \in Seq(Entries)
    BY <2>1 DEF Frames
  <2>4. IsInjective(new)
    BY <1>4, <1>5 DEF FramesDistinct
  <2>5. \A e \in Entries : e.sample \in Nat
    BY DEF Entries, Messages
  <2> QED BY <2>2, <2>3, <2>4, <2>5, CacheTypes
<1>7. B!Elems(got'[v]) = B!Elems(got[v]) \cup B!Elems(new)
  BY <1>3, <1>6, ElemsConcat
<1>8. Mark(c) \in Nat /\ Mark(c) <= msg /\ msg \in Nat
  BY ConnTypes
<1>9. ASSUME NEW e \in B!Elems(new), j > 2
      PROVE  Mark(c) < e.sample /\ e.sample <= msg
  <2>1. PICK n \in 1..Done(c) : e.sample = sent[c][n]
    BY <1>4, <1>5, <1>9 DEF FrameOrigin
  <2>2. n \in 1..Len(sent[c])
    BY ConnTypes DEF Done
  <2>3. Mark(c) < sent[c][n] /\ sent[c][n] \in 1..msg
    BY <2>2, Received
  <2> QED BY <2>1, <2>3, <1>8
<1>10. ASSUME NEW e \in B!Elems(new), j <= 2
       PROVE  e.sample <= Mark(c)
  BY <1>4, <1>5, <1>10 DEF FrameOrigin
<1>11. ASSUME NEW e \in B!Elems(new), j <= 2
       PROVE  samples[e.sample].time \in wanted[c]
  <2>1. j = 2
    <3>1. j = 1 => new = <<>>
      BY <1>4, <1>5 DEF Stage
    <3> QED BY <3>1, <1>4, <1>11, EmptyElems
  <2>2. Snapshot(c) = new
    <3>1. Len(frames[c]) >= 2
      BY <2>1, <1>4
    <3>2. pc[c] # "load"
      BY <3>1, <1>5, <1>4 DEF Stage
    <3> QED BY <3>1, <3>2, <2>1 DEF Snapshot
  <2> QED BY <2>2, <1>5, <1>11 DEF SnapshotRows
<1>12. CacheOld(v)'
  <2>1. \A e \in B!Elems(new) : e.sample <= msg
    BY <1>4, <1>6, <1>8, <1>9, <1>10
  <2> QED BY <2>1, <1>7 DEF CachePart, CacheOld, SharedSame
<1>13. CacheOrigin(v)'
  <2> SUFFICES ASSUME date[v] = {}, NEW e \in B!Elems(got'[v])
               PROVE  \/ \E i \in 1..j : e \in B!Elems(frames[c][i].entries)
                      \/ samples[e.sample].time \notin wanted[c] /\ e.sample <= Mark(c)
    BY <1>2, <1>3, SharedKept DEF CacheOrigin, SharedSame
  <2>1. CASE e \in B!Elems(new)
    BY <2>1, <1>4
  <2>2. CASE e \in B!Elems(got[v])
    <3>1. \A i \in 1..seen[c] : i \in 1..j
      BY <1>4
    <3>2. sock[v] # NoConn
      BY <1>2
    <3> QED BY <2>2, <3>1, <3>2, <1>2 DEF CachePart, CacheOrigin
  <2> QED BY <2>1, <2>2, <1>7
<1>14. NoneTwice(v)'
  <2> SUFFICES ASSUME date[v] = {} PROVE IsInjective(got'[v])
    BY <1>3 DEF NoneTwice
  <2>1. ASSUME NEW e \in B!Elems(got[v]), e \in B!Elems(new) PROVE FALSE
    <3>1. CASE \E i \in 1..seen[c] : e \in B!Elems(frames[c][i].entries)
      <4>1. PICK i \in 1..seen[c] : e \in B!Elems(frames[c][i].entries)
        BY <3>1
      <4>2. i \in 1..Len(frames[c]) /\ i < j
        BY <1>4
      <4>3. CASE j > 2
        <5>1. e.sample < e.sample
          BY <4>1, <4>2, <4>3, <2>1, <1>4, <1>5 DEF LiveAfter
        <5> QED BY <5>1, <2>1, <1>6
      <4>4. CASE ~ (j > 2)
        <5>1. i = 1
          BY <4>2, <4>4, <1>4
        <5> QED BY <5>1, <4>1, <1>4, <1>5, EmptyElems DEF Stage
      <4> QED BY <4>3, <4>4
    <3>2. CASE samples[e.sample].time \notin wanted[c] /\ e.sample <= Mark(c)
      <4>1. CASE j > 2
        BY <4>1, <3>2, <2>1, <1>6, <1>8, <1>9
      <4>2. CASE j <= 2
        BY <4>2, <3>2, <2>1, <1>11
      <4> QED BY <4>1, <4>2, <1>4
    <3>3. sock[v] # NoConn
      BY <1>2
    <3> QED BY <3>1, <3>2, <3>3, <1>2 DEF CachePart, CacheOrigin
  <2>2. IsInjective(got[v])
    BY DEF CachePart, NoneTwice
  <2>3. IsInjective(got[v] \o new)
    BY <2>1, <2>2, <1>6, InjectiveConcat
  <2> QED BY <2>3, <1>3
<1> QED BY <1>12, <1>13, <1>14 DEF CachePart

\* Every step keeps what holds of a browser's cache.
LEMMA NextCache ==
  ASSUME Known, BrokerView', Grows, [Next]_vars, Sockets,
         \A d \in Conn : ConnPart(d), NEW v \in Viewer, CachePart(v)
  PROVE  CachePart(v)'
<1>0. /\ sock \in [Viewer -> Conn \cup {NoConn}] /\ got \in [Viewer -> Seq(Entries)]
      /\ seen \in [Conn -> Nat] /\ wanted \in [Conn -> SUBSET Time]
  BY DEF Known, LocalTypeOK
<1>1. CASE ~ \E w \in Viewer : BrowserStep(w)
  <2>1. /\ UNCHANGED <<sock, got, date, link, seen, wanted>>
        /\ \A c \in Conn : \A i \in 1..Len(frames[c]) : frames'[c][i] = frames[c][i]
    BY <1>1, ServerSteps
  <2>2. \A c \in Conn : seen[c] \in Nat /\ seen[c] <= Len(frames[c]) /\ Len(frames[c]) \in Nat
    BY ConnTypes
  <2>3. \A c \in Conn : \A i \in 1..seen[c] : frames'[c][i] = frames[c][i]
    BY <2>1, <2>2
  <2> QED BY <2>1, <2>2, <2>3, CacheKept
<1>2. ASSUME NEW w \in Viewer, OnMessage(w) \/ OnClose(w) PROVE CachePart(v)'
  <2>1. sock[w] \in Conn
    BY <1>0, <1>2 DEF OnMessage, OnClose
  <2>2. SharedSame
    BY <1>2, <2>1, SharedSteps
  <2>3. CASE w = v
    BY <2>2, <2>3, <1>2, MessageCache, CloseCache
  <2>4. CASE w # v
    <3>1. /\ got'[v] = got[v] /\ date' = date /\ sock'[v] = sock[v]
          /\ UNCHANGED <<frames, wanted>>
      BY <2>4, <1>0, <1>2, SMTT(20) DEF OnMessage, OnClose, subVars
    <3>2. ASSUME NEW c \in Conn, c = sock[v] PROVE seen'[c] = seen[c]
      <4>1. sock[w] # c
        BY <2>1, <2>4, <3>2 DEF Sockets
      <4> QED BY <4>1, <1>0, <1>2 DEF OnMessage, OnClose
    <3> QED BY <3>1, <3>2, CacheKept, SMTT(20)
  <2> QED BY <2>3, <2>4, SMTT(20)
<1>3. ASSUME NEW w \in Viewer, NEW c \in Conn, Connect(w, c) PROVE CachePart(v)'
  <2>1. SharedSame /\ Stage(c)
    BY <1>3, SharedSteps, KnowsStage
  <2>2. CASE w = v
    BY <2>1, <2>2, <1>3, ConnectCache
  <2>3. CASE w # v
    <3>1. /\ sock'[v] = sock[v] /\ UNCHANGED <<got, date, seen, frames>>
          /\ wanted' = [wanted EXCEPT ![c] = Window(w)] /\ link[c] = "none"
      BY <2>3, <1>0, <1>3 DEF Connect, Accept
    <3>2. ASSUME NEW d \in Conn, d = sock[v] PROVE wanted'[d] = wanted[d]
      <4>1. d # c
        BY <3>1, <3>2 DEF Sockets
      <4> QED BY <4>1, <3>1, <1>0
    <3> QED BY <3>1, <3>2, CacheKept
  <2> QED BY <2>2, <2>3
<1> QED BY <1>1, <1>2, <1>3 DEF BrowserStep

-----------------------------------------------------------------------------
(***************************************************************************)
(* The inductive invariant.                                                *)
(***************************************************************************)
\* The invariant, by subscription and browser.
LEMMA InvParts ==
  IInv <=> /\ LocalTypeOK /\ NobodyLeaves /\ LogIsRead
           /\ \A c \in Conn : ConnPart(c)
           /\ Sockets /\ \A v \in Viewer : CachePart(v)
<1>1. AtMostOnce <=> \A v \in Viewer : NoneTwice(v)
  BY DEF AtMostOnce, NoneTwice
<1>2. LiveAfterSnapshot <=> \A c \in Conn : LiveAfter(c)
  BY DEF LiveAfterSnapshot, LiveAfter
<1>3. NothingLostInTransit <=> \A c \in Conn : Transit(c)
  BY DEF NothingLostInTransit, Transit
<1>4. (\A v \in Viewer : ViewerInv(v)) <=>
        Sockets /\ \A v \in Viewer : CacheOld(v) /\ CacheOrigin(v)
  BY SocketParts DEF ViewerInv
<1> QED BY <1>1, <1>2, <1>3, <1>4 DEF IInv, ConnPart, CachePart

\* It holds at the start.
LEMMA InitInv == Init => IInv
<1> SUFFICES ASSUME Init PROVE IInv
  OBVIOUS
<1> DEFINE FS == Seq(Frames)
           ES == Seq(Entries)
           SS == Seq([series : Series, time : Time])
<1>1. <<>> \in FS /\ <<>> \in ES /\ <<>> \in SS /\ Len(<<>>) = 0
  BY EmptySeq
<1>2. /\ published = 0
      /\ \A c \in Channels : sent[c] = <<>> /\ read[c] = 0 /\ left[c] = 0
      /\ gone = {} /\ made = {} /\ subs = {} /\ unsubCh = <<>> /\ log = <<>>
  BY DEF Init, B!Init, R!Init, Channels
<1>3. LocalTypeOK
  <2>1. Len(Shown) \in Nat /\ 1 \in 1..(Len(Shown) + 1)
    OBVIOUS
  <2>2. samples \in SS /\ out \in [Conn -> ES] /\ frames \in [Conn -> FS]
        /\ got \in [Viewer -> ES]
    <3> HIDE DEF FS, ES, SS
    <3> QED BY <1>1 DEF Init
  <2>3. \A c \in Conn : seen[c] <= Len(frames[c])
    BY <1>1 DEF Init
  <2> QED BY <1>1, <1>2, <2>1, <2>2, <2>3 DEF Init, LocalTypeOK
<1>4. NobodyLeaves
  BY <1>2 DEF NobodyLeaves, Channels
<1>5. LogIsRead
  BY <1>1, <1>2 DEF LogIsRead, Inserted, Init, Channels
<1>6. ASSUME NEW c \in Conn PROVE ConnPart(c)
  <2>1. /\ Len(frames[c]) = 0 /\ out[c] = <<>> /\ pc[c] = "none" /\ link[c] = "none"
        /\ seen[c] = 0 /\ pos[c] = 1 /\ handler[c] = FALSE /\ frames[c] = <<>>
    BY <1>1 DEF Init
  <2>0. c \notin made
    BY <1>2
  <2>2. Stage(c)
    BY <2>1, <2>0 DEF Stage
  <2>3. FrameOrigin(c) /\ FramesDistinct(c) /\ LiveAfter(c)
    BY <2>1 DEF FrameOrigin, FramesDistinct, LiveAfter
  <2>4. OutOrigin(c) /\ Transit(c)
    BY <2>1, EmptyElems DEF OutOrigin, Transit
  <2>5. Snapshot(c) = <<>>
    BY <2>1 DEF Snapshot
  <2>6. SnapshotRows(c) /\ SnapshotGaps(c)
    BY <2>5, EmptyElems DEF SnapshotRows, SnapshotGaps, SnapshotAt
  <2> QED BY <2>2, <2>3, <2>4, <2>6 DEF ConnPart, ConnInv
<1>7. Sockets /\ \A v \in Viewer : CachePart(v)
  <2>1. \A v \in Viewer : sock[v] = NoConn /\ got[v] = <<>>
    BY DEF Init
  <2> QED BY <2>1, EmptyElems DEF Sockets, CachePart, CacheOld, CacheOrigin, NoneTwice
<1> QED BY <1>3, <1>4, <1>5, <1>6, <1>7, InvParts

\* The same of the next state.
LEMMA TableFactsNext == B!IInv' /\ Base' /\ RecorderInv' => TableView'
  BY TableFacts, PTL

\* The same of the next state.
LEMMA InvPartsNext ==
  IInv' <=> /\ LocalTypeOK' /\ NobodyLeaves' /\ LogIsRead'
            /\ (\A c \in Conn : ConnPart(c))'
            /\ Sockets' /\ (\A v \in Viewer : CachePart(v))'
  BY InvParts, PTL

\* The same of the next state.
LEMMA LocalTypesNext ==
  LocalTypeOK' <=> /\ SamplesOK' /\ (dbHolds \in 0..MaxPublish)'
                   /\ SubTypeOK' /\ WireTypeOK' /\ ViewTypeOK'
  BY LocalTypeParts, PTL

\* Every step keeps the types.
LEMMA NextTypes ==
  ASSUME BrokerView, TableView, LocalTypeOK, SamplesOK', [Next]_vars
  PROVE  LocalTypeOK'
<1>1. dbHolds \in 0..MaxPublish /\ SubTypeOK /\ WireTypeOK /\ ViewTypeOK
  BY LocalTypeParts
<1>2. dbHolds' \in 0..MaxPublish
  <2>1. CASE DbTake
    <3>1. /\ dbHolds' = sent[DbCh][read'[DbCh]] /\ read'[DbCh] = read[DbCh] + 1
          /\ read[DbCh] < Len(sent[DbCh]) /\ DbCh \in Channels
      BY <2>1 DEF DbTake, B!Receive, B!Unread, BrokerView, Channels
    <3>2. read'[DbCh] \in 1..Len(sent[DbCh])
      BY <3>1 DEF BrokerView
    <3> QED BY <3>1, <3>2 DEF BrokerView
  <2>2. CASE DbInsert
    BY <2>2 DEF DbInsert
  <2>3. CASE UNCHANGED dbHolds
    BY <2>3, <1>1
  <2> QED BY <2>1, <2>2, <2>3, DbSteps
<1>3. CASE \E c \in Conn : Subscribe(c)
  <2>1. PICK c \in Conn : Subscribe(c)
    BY <1>3
  <2>2. UNCHANGED viewerVars
    BY <2>1 DEF Subscribe, SendHello, Load, Refuse, SendError, SendInitial, Join,
                TakeLive, SendLive
  <2>3. ViewTypeOK'
    BY <2>2, <1>1 DEF ViewTypeOK, viewerVars
  <2>4. SubTypeOK' /\ WireTypeOK'
    BY <2>1, <1>1, SubscribeTypes
  <2> QED BY <2>3, <2>4, <1>2, LocalTypesNext
<1>4. CASE \E v \in Viewer : BrowserStep(v)
  <2>1. SubTypeOK' /\ WireTypeOK' /\ ViewTypeOK'
    BY <1>1, <1>4, BrowserTypes DEF BrowserStep
  <2> QED BY <2>1, <1>2, LocalTypesNext
<1>5. CASE UNCHANGED <<subVars, wireVars, viewerVars>>
  <2>1. SubTypeOK' /\ WireTypeOK' /\ ViewTypeOK'
    BY <1>1, <1>5 DEF SubTypeOK, WireTypeOK, ViewTypeOK, subVars, wireVars, viewerVars
  <2> QED BY <2>1, <1>2, LocalTypesNext
<1>6. CASE \E s \in Series, t \in Time : CreateValue(s, t)
  BY <1>5, <1>6 DEF CreateValue
<1>7. CASE BrokerStep \/ DbSubscribe \/ DbTake \/ DbInsert \/ WriterStep \/ UNCHANGED vars
  BY <1>5, <1>7 DEF BrokerStep, DbSubscribe, DbTake, DbInsert, WriterStep, vars
<1> QED BY <1>3, <1>4, <1>6, <1>7 DEF Next, BrowserStep

\* Every step keeps the invariant.
LEMMA NextInv ==
  ASSUME IInv, B!IInv, B!IInv', Base, Base', RecorderInv, RecorderInv', [Next]_vars
  PROVE  IInv'
<1>1. /\ LocalTypeOK /\ NobodyLeaves /\ Sockets
      /\ (\A c \in Conn : ConnPart(c)) /\ \A v \in Viewer : CachePart(v)
  BY InvParts
<1>2. BrokerView /\ BrokerView' /\ TableView /\ TableView' /\ SamplesOK
  BY BrokerFacts, BrokerFactsNext, TableFacts, TableFactsNext DEF Base
<1>3. Known
  BY <1>1, <1>2 DEF Known
<1>4. Grows
  BY <1>2, Growth
<1>5. TableGrows
  BY <1>2, <1>4, NextRecorder, TableStep
<1>6. NobodyLeaves' /\ LogIsRead' /\ SamplesOK'
  BY DEF Base
<1>7. LocalTypeOK'
  BY <1>1, <1>2, <1>6, NextTypes
<1>8. \A v \in Viewer : SocketOK(v)
  BY <1>1, SocketParts DEF CachePart
<1>9. \A c \in Conn : ConnPart(c)'
  BY <1>1, <1>2, <1>3, <1>4, <1>5, <1>8, NextConn
<1>10. Sockets'
  BY <1>1, <1>3, NextSockets
<1>11. \A v \in Viewer : CachePart(v)'
  BY <1>1, <1>2, <1>3, <1>4, NextCache
<1> QED BY <1>6, <1>7, <1>9, <1>10, <1>11, InvPartsNext

-----------------------------------------------------------------------------
(***************************************************************************)
(* The broker and the recorder inside are those of their modules.          *)
(***************************************************************************)
BP == INSTANCE BrokerProofs WITH Chan <- Conn \cup {DbCh}

RP == INSTANCE RecorderProofs WITH
        Key <- Series \X Time, Value <- 1..MaxPublish, Absent <- 0,
        MaxAccepted <- MaxPublish, MaxCrashes <- 0

\* The channels, the browsers' and publishToDB's, are what the broker assumes.
LEMMA BrokerConstants == BP!BrokerAssumption
<1>1. IsFiniteSet(Conn \cup {DbCh})
  BY FS_AddElement
<1> QED BY <1>1 DEF BP!BrokerAssumption, IsFiniteSet, BP!IsFiniteSet

\* The broker's invariant here is the one of BrokerProofs.
LEMMA SameBrokerInvariant == B!IInv <=> BP!IInv
  BY DEF B!IInv, BP!IInv, B!TypeOK, BP!TypeOK, B!Messages, BP!Messages,
         B!BuffersConsistent, BP!BuffersConsistent, B!FreshHasNoPast,
         BP!FreshHasNoPast, B!Fresh, BP!Fresh, B!Elems, BP!Elems,
         B!SpansConsistent, BP!SpansConsistent, B!DeliveredInOrder,
         BP!DeliveredInOrder, B!DropCountExact, BP!DropCountExact, B!Missed,
         BP!Missed, B!UnsubscribeIsFinal, BP!UnsubscribeIsFinal, B!Offered,
         BP!Offered, B!Cardinality, BP!Cardinality, B!IsFiniteSet,
         BP!IsFiniteSet

\* What Broker!Next says of a step in this module and in BrokerProofs is the
\* same.
LEMMA SameBrokerSteps == B!Next => BP!Next
<1>1. B!Publish => BP!Publish
  BY DEF B!Publish, BP!Publish, B!HasRoom, BP!HasRoom, B!RequestCap, BP!RequestCap,
         B!loop, BP!loop, B!inboxes, BP!inboxes, B!history, BP!history
<1>2. B!Start => BP!Start
  BY DEF B!Start, BP!Start, B!Exit, BP!Exit, B!Register, BP!Register, B!Unregister,
         BP!Unregister, B!TakeMessage, BP!TakeMessage, B!Offer, BP!Offer,
         B!Unread, BP!Unread, B!Selecting, BP!Selecting, B!channels, BP!channels,
         B!callers, BP!callers, B!inboxes, BP!inboxes, B!history, BP!history
<1>3. B!Stop => BP!Stop
  BY DEF B!Stop, BP!Stop, B!loop, BP!loop, B!callers, BP!callers, B!inboxes,
         BP!inboxes, B!history, BP!history
<1>4. ASSUME NEW c \in Conn \cup {DbCh}
      PROVE  /\ B!Subscribe(c) => BP!Subscribe(c)
             /\ B!Unsubscribe(c) => BP!Unsubscribe(c)
             /\ B!Receive(c) => BP!Receive(c)
  BY DEF B!Subscribe, BP!Subscribe, B!Unsubscribe, BP!Unsubscribe, B!Receive,
         BP!Receive, B!HasRoom, BP!HasRoom, B!RequestCap, BP!RequestCap,
         B!Unread, BP!Unread, B!channels, BP!channels, B!loop, BP!loop,
         B!callers, BP!callers, B!inboxes, BP!inboxes, B!history, BP!history
<1> QED BY <1>1, <1>2, <1>3, <1>4 DEF B!Next, BP!Next

\* Whatever the server does besides, its broker is the broker of module
\* Broker, with all that is assumed of its callers there.
THEOREM BrokerRefined == Spec => B!Spec
<1>1. Init => B!Init
  BY DEF Init
<1> QED BY <1>1, NextBroker, PTL DEF Spec, B!Spec

\* What BrokerProofs proves of the broker holds in every reachable state.
THEOREM BrokerInvariance == Spec => []B!IInv
<1>1. BP!Spec => []BP!IInv
  BY BrokerConstants, BP!Invariance
<1>2. B!Init => BP!Init
  BY DEF B!Init, BP!Init
<1>3. [B!Next]_(B!vars) => [BP!Next]_(BP!vars)
  BY SameBrokerSteps DEF B!vars, B!channels, B!loop, B!callers, B!inboxes,
     B!history, BP!vars, BP!channels, BP!loop, BP!callers, BP!inboxes, BP!history
<1>4. B!Spec => BP!Spec
  BY <1>2, <1>3, PTL DEF B!Spec, BP!Spec
<1> QED BY <1>1, <1>4, BrokerRefined, SameBrokerInvariant, PTL

\* The table's keys and values are what the recorder assumes.
LEMMA RecorderConstants == RP!RecorderAssumption
  BY DEF RP!RecorderAssumption

\* The recorder's steps here are those of RecorderProofs.
LEMMA SameRecorderSteps == R!Next => RP!Next
<1>1. ASSUME NEW op, R!Queue(op) PROVE RP!Queue(op)
  BY <1>1 DEF R!Queue, RP!Queue
<1>2. R!Collect => RP!Collect
  BY DEF R!Collect, RP!Collect
<1>3. R!Flush => RP!Flush
  BY DEF R!Flush, RP!Flush, R!S!Replay, RP!S!Replay, R!S!FoldLeft, RP!S!FoldLeft,
     R!S!MapThenFoldSet, RP!S!MapThenFoldSet, R!S!Max, RP!S!Max, R!S!Apply, RP!S!Apply
<1>4. R!FlushFails => RP!FlushFails
  BY DEF R!FlushFails, RP!FlushFails
<1>5. R!Crash => RP!Crash
  BY DEF R!Crash, RP!Crash
<1> QED BY <1>1, <1>2, <1>3, <1>4, <1>5
        DEF R!Next, RP!Next, R!RunWriter, RP!RunWriter, R!InsertValue, RP!InsertValue,
            R!Insert, RP!Insert, R!Save, RP!Save

\* The recorder's invariant here follows from the one of RecorderProofs.
LEMMA SameRecorderInvariant == RP!TableInv => RecorderInv
  BY DEF RP!TableInv, RecorderInv, RP!TypeOK, R!TypeOK, RP!PipelineTypeOK,
     R!PipelineTypeOK, RP!PipelineIntact, R!PipelineIntact, RP!TableHoldsWritten,
     R!TableHoldsWritten, RP!RowOf, R!RowOf, RP!S!Operation, R!S!Operation,
     RP!S!Table, R!S!Table, RP!Max, R!Max, RP!Min, R!Min

\* The recorder inside is the recorder of module Recorder: publishToDB only
\* queues rows of samples, with the keys and values that module allows.
THEOREM RecorderRefined == Spec => R!Spec
<1>1. Init => R!Init
  BY DEF Init
<1>2. Spec => []Base
  BY InitBase, NextBase, BrokerInvariance, PTL DEF Spec
<1> QED BY <1>1, <1>2, NextRecorder, BrokerInvariance, PTL DEF Spec, R!Spec

\* What RecorderProofs proves of the recorder holds in every reachable state.
THEOREM RecorderInvariance == Spec => []RecorderInv
<1>1. RP!Spec => []RP!TableInv
  BY RecorderConstants, RP!TableInvariance
<1>2. R!Init => RP!Init
  BY DEF R!Init, RP!Init, R!S!EmptyTable, RP!S!EmptyTable
<1>3. [R!Next]_(R!vars) => [RP!Next]_(RP!vars)
  BY SameRecorderSteps DEF R!vars, RP!vars
<1>4. R!Spec => RP!Spec
  BY <1>2, <1>3, PTL DEF R!Spec, RP!Spec
<1> QED BY <1>1, <1>4, RecorderRefined, SameRecorderInvariant, PTL

\* Of the samples the broker gave publishToDB none is lost on the way, and
\* a key keeps its first one, in every reachable state.
THEOREM FirstSampleKept == Spec => []FirstSampleRecorded
<1>1. Spec => []Base
  BY InitBase, NextBase, BrokerInvariance, PTL DEF Spec
<1> QED BY <1>1, FirstIsRecorded, BrokerInvariance, RecorderInvariance, PTL

-----------------------------------------------------------------------------
\* The invariant holds in every reachable state, with those of the broker and
\* the recorder.
THEOREM Invariance == Spec => [](IInv /\ B!IInv /\ Base /\ RecorderInv)
<1>1. Spec => []Base
  BY InitBase, NextBase, BrokerInvariance, PTL DEF Spec
<1>2. IInv /\ B!IInv /\ B!IInv' /\ Base /\ Base' /\ RecorderInv /\ RecorderInv'
        /\ [Next]_vars => IInv'
  BY NextInv
<1> QED BY <1>1, <1>2, InitInv, BrokerInvariance, RecorderInvariance, PTL DEF Spec

-----------------------------------------------------------------------------
(***************************************************************************)
(* What follows.                                                           *)
(***************************************************************************)
\* Every variable has its type in every reachable state.
THEOREM TypeCorrectness == Spec => []TypeOK
<1>1. IInv /\ B!IInv /\ RecorderInv => TypeOK
  BY DEF IInv, B!IInv, RecorderInv, TypeOK
<1> QED BY <1>1, Invariance, PTL

\* However often a browser that resumes its window is cut off and comes back,
\* no sample is appended to its chart twice (SubscribeReq.afterMarks, Subscribe).
THEOREM NoneShownTwice == Spec => []AtMostOnce
<1>1. IInv => AtMostOnce
  BY DEF IInv
<1> QED BY <1>1, Invariance, PTL

\* What follows the snapshot on a websocket is newer than all before it
\* (Graph.Subscribe registers after it has read).
THEOREM LiveIsNewer == Spec => []LiveAfterSnapshot
<1>1. IInv => LiveAfterSnapshot
  BY DEF IInv
<1> QED BY <1>1, Invariance, PTL

\* While its handler lives, a websocket's messages are each in its channel, in
\* the handler's hands or written (Subscribe, packSeries).
THEOREM TransitIsSafe == Spec => []NothingLostInTransit
<1>1. IInv => NothingLostInTransit
  BY DEF IInv
<1> QED BY <1>1, Invariance, PTL

\* A row that the snapshot misses is newer than all the rows it has of the
\* series: the loads stop at one point in time (getInitialData, LoadDataWindow).
THEOREM SnapshotHasNoGaps == Spec => []SnapshotIsPrefix
<1>1. IInv /\ B!IInv /\ Base /\ RecorderInv => SnapshotIsPrefix
  <2> SUFFICES ASSUME IInv, B!IInv, Base, RecorderInv,
                      NEW c \in Conn, NEW p \in Positions, Len(frames[c]) >= 2
               PROVE  LET S == {e.sample : e \in {f \in B!Elems(frames[c][2].entries) : f.pos = p}}
                      IN  \A t \in wanted[c] :
                            LET m == table[<<Shown[p], t>>] IN
                            m # 0 /\ m \notin S => \A n \in S : n < m
    BY DEF SnapshotIsPrefix
  <2>1. Stage(c) /\ SnapshotGaps(c)
    BY DEF IInv, ConnInv
  <2>2. Known
    BY BrokerFacts, TableFacts DEF IInv, Known
  <2>3. pc[c] # "load"
    BY <2>1, <2>2, ConnTypes DEF Stage
  <2>4. Snapshot(c) = frames[c][2].entries
    BY <2>3 DEF Snapshot
  <2> QED BY <2>1, <2>4 DEF SnapshotGaps, SnapshotAt
<1> QED BY <1>1, Invariance, PTL
=============================================================================
