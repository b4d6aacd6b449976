------------------------------ MODULE Exporter ------------------------------
(***************************************************************************)
(* publishPrometheusMetrics (prom.go): one more subscriber of the broker,  *)
(* which keeps a gauge per series and registers it at the first sample.  A *)
(* name that cannot be registered is reported on errCh by the same loop,   *)
(* so the loop waits when nobody receives from there.                      *)
(*                                                                         *)
(* The broker is module Broker, step for step; a message is known by its   *)
(* number, which is also the value of its sample.                          *)
(***************************************************************************)
EXTENDS SequencesExt

CONSTANTS
  Series,
  Refused,      \* series whose name prometheus.Register refuses
  PromCh,       \* the broker channel of the exporter
  Others,       \* channels of other subscribers, which may never receive
  ErrRoom,      \* errors that errCh takes before a send blocks: its buffer,
                \*   and one more if a receiver waits
  InboxCap, MaxPublish

ASSUME ExporterAssumption ==
  /\ Refused \subseteq Series
  /\ PromCh \notin Others /\ IsFiniteSet(Others)
  /\ ErrRoom \in Nat
  /\ InboxCap \in Nat \ {0} /\ MaxPublish \in Nat

VARIABLES
  subCh, unsubCh, publishCh, stopCh, subs, msg, todo, exited, dropCount,
  published, made, gone, sent, read, joined, left,    \* as in Broker
  seriesOf,    \* history: seriesOf[m] is the series of message m
  pc,          \* where the loop over the channel is
  message,     \* the message it is at
  metricMap,   \* the gauges: None if there is none, else their value
  errors,      \* errors sent and not yet handled
  reported     \* history: errors sent, per series

brokerVars == <<subCh, unsubCh, publishCh, stopCh, subs, msg, todo, exited,
                dropCount, published, made, gone, sent, read, joined, left>>
vars == <<brokerVars, seriesOf, pc, message, metricMap, errors, reported>>

B == INSTANCE Broker WITH Chan <- Others \cup {PromCh}

None == -1

Init ==
  /\ B!Init
  /\ seriesOf = <<>>
  /\ pc = "range" /\ message = 0
  /\ metricMap = [s \in Series |-> None]
  /\ errors = 0 /\ reported = [s \in Series |-> 0]

-----------------------------------------------------------------------------
CreateValue(s) ==
  /\ B!Publish
  /\ seriesOf' = Append(seriesOf, s)
  /\ UNCHANGED <<pc, message, metricMap, errors, reported>>

\* Nobody calls Stop, and no loop over a broker channel ends.
BrokerStep ==
  /\ \/ B!Register
     \/ B!TakeMessage
     \/ \E c \in Others \cup {PromCh} : B!Offer(c)
  /\ UNCHANGED <<seriesOf, pc, message, metricMap, errors, reported>>

Subscribe(c) ==
  /\ B!Subscribe(c)
  /\ UNCHANGED <<seriesOf, pc, message, metricMap, errors, reported>>

\* Rejected variant: registers at every message.
TakeAndRegister ==
  LET m == sent[PromCh][read'[PromCh]]
      s == seriesOf[m]
  IN
  /\ pc = "range"
  /\ B!Receive(PromCh)
  /\ message' = m
  /\ metricMap' = [metricMap EXCEPT ![s] = IF @ = None THEN 0 ELSE @]
  /\ pc' = IF s \in Refused THEN "report" ELSE "set"
  /\ UNCHANGED <<seriesOf, errors, reported>>

\* The next message.  The gauge of a new series is put into the map before
\* it is registered, and stays there if that fails.
Take ==
  LET m == sent[PromCh][read'[PromCh]]
      s == seriesOf[m]
  IN
  /\ pc = "range"
  /\ B!Receive(PromCh)
  /\ message' = m
  /\ metricMap' = [metricMap EXCEPT ![s] = IF @ = None THEN 0 ELSE @]
  /\ pc' = IF metricMap[s] = None /\ s \in Refused THEN "report" ELSE "set"
  /\ UNCHANGED <<seriesOf, errors, reported>>

\* g.errCh <- err.
Report ==
  /\ pc = "report"
  /\ errors < ErrRoom
  /\ errors' = errors + 1
  /\ reported' = [reported EXCEPT ![seriesOf[message]] = @ + 1]
  /\ pc' = "set"
  /\ UNCHANGED <<brokerVars, seriesOf, message, metricMap>>

\* Rejected variant: sets a gauge when it is made and not again.
SetOnce ==
  /\ pc = "set"
  /\ metricMap' = [metricMap EXCEPT ![seriesOf[message]] = IF @ = 0 THEN message ELSE @]
  /\ pc' = "range"
  /\ UNCHANGED <<brokerVars, seriesOf, message, errors, reported>>

Set ==
  /\ pc = "set"
  /\ metricMap' = [metricMap EXCEPT ![seriesOf[message]] = message]
  /\ pc' = "range"
  /\ UNCHANGED <<brokerVars, seriesOf, message, errors, reported>>

\* The application deals with an error, and receives again.  It need not:
\* that of the repository receives one error and ends.
HandleError ==
  /\ errors > 0
  /\ errors' = errors - 1
  /\ UNCHANGED <<brokerVars, seriesOf, pc, message, metricMap, reported>>

Loop == Take \/ Report \/ Set

Next ==
  \/ \E s \in Series : CreateValue(s)
  \/ BrokerStep
  \/ \E c \in Others \cup {PromCh} : Subscribe(c)
  \/ Loop
  \/ HandleError

Spec == Init /\ [][Next]_vars

\* The goroutines run; nobody need publish, subscribe or receive errors.
FairSpec == Spec /\ WF_vars(BrokerStep) /\ WF_vars(Loop)

-----------------------------------------------------------------------------
\* The newest sample of s among the first n messages of the exporter.
Newest(s, n) ==
  Max({None} \cup {m \in B!Elems(SubSeq(sent[PromCh], 1, n)) : seriesOf[m] = s})

\* Between messages a gauge has the value of the newest sample of its series
\* that the exporter has received, though the broker may have dropped later
\* ones, and there is no gauge for a series it has not heard of.  That a gauge
\* expires 15 seconds after it was set is left to the library.
GaugesFollow ==
  pc = "range" => \A s \in Series : metricMap[s] = Newest(s, read[PromCh])

\* A name that is refused is reported once, at its first sample, however
\* many follow.
ReportedOnce ==
  \A s \in Series :
    reported[s] = IF s \in Refused /\ metricMap[s] # None
                     /\ ~(pc = "report" /\ seriesOf[message] = s)
                  THEN 1 ELSE 0

\* To what the broker has put into the exporter's channel a gauge is set in
\* the end, also one that was refused and is not exported, or an error that nobody receives holds the loop up for ever:
\* nothing else can.
EventuallyExported ==
  \A m \in 1..MaxPublish :
    m \in B!Elems(sent[PromCh])
      ~> \/ m <= published /\ metricMap[seriesOf[m]] >= m
         \/ [](pc = "report" /\ errors = ErrRoom)

-----------------------------------------------------------------------------
(***************************************************************************)
(* The inductive invariant behind the safety properties: while the loop is *)
(* at a message, the gauges are behind by that message, but for the gauge  *)
(* that the message has made.                                              *)
(***************************************************************************)
TypeOK ==
  /\ seriesOf \in Seq(Series) /\ Len(seriesOf) = published
  /\ pc \in {"range", "report", "set"}
  /\ metricMap \in [Series -> Nat \cup {None}]
  /\ errors \in 0..ErrRoom
  /\ reported \in [Series -> Nat]

AtMessage ==
  pc # "range" => read[PromCh] > 0 /\ message = sent[PromCh][read[PromCh]]

Done == IF pc = "range" THEN read[PromCh] ELSE read[PromCh] - 1

GaugesBehind ==
  \A s \in Series :
    metricMap[s] = IF pc # "range" /\ s = seriesOf[message] /\ Newest(s, Done) = None
                   THEN 0 ELSE Newest(s, Done)

IInv ==
  /\ TypeOK
  /\ AtMessage
  /\ GaugesBehind
  /\ pc = "report" => seriesOf[message] \in Refused
  /\ ReportedOnce
=============================================================================
