---------------------------- MODULE ExporterProofs ----------------------------
(***************************************************************************)
(* Theorems about the Prometheus export, for every set of series and of    *)
(* other subscribers, buffers of every size and any number of errors that  *)
(* the application takes: the broker inside is the one of module Broker,   *)
(* a gauge has the newest value received, and a refused name is reported   *)
(* once.                                                                   *)
(***************************************************************************)
EXTENDS Exporter, Integers, Lemmas

USE ExporterAssumption

BP == INSTANCE BrokerProofs WITH Chan <- Others \cup {PromCh}

-----------------------------------------------------------------------------
(***************************************************************************)
(* The broker.                                                             *)
(***************************************************************************)
\* The channels are what the broker assumes.
LEMMA BrokerConstants == BP!BrokerAssumption
<1>1. IsFiniteSet(Others \cup {PromCh})
  BY FS_AddElement
<1> QED BY <1>1 DEF BP!BrokerAssumption, IsFiniteSet, BP!IsFiniteSet

\* The broker's invariant here is the one of BrokerProofs.
LEMMA SameBrokerInvariant == B!IInv <=> BP!IInv
  BY DEF B!IInv, BP!IInv, B!TypeOK, BP!TypeOK, B!Messages, BP!Messages,
         B!BuffersConsistent, BP!BuffersConsistent, B!FreshHasNoPast,
         BP!FreshHasNoPast, B!Fresh, BP!Fresh, B!Elems, BP!Elems,
         B!SpansConsistent, BP!SpansConsistent, B!DeliveredInOrder,
         BP!DeliveredInOrder, B!DropCountExact, BP!DropCountExact, B!Missed,
         BP!Missed, B!UnsubscribeIsFinal, BP!UnsubscribeIsFinal, B!Offered,
         BP!Offered, B!Cardinality, BP!Cardinality, B!IsFiniteSet,
         BP!IsFiniteSet

\* What Broker!Next says of a step in this module and in BrokerProofs is the
\* same.
LEMMA SameBrokerSteps == B!Next => BP!Next
<1>1. B!Publish => BP!Publish
  BY DEF B!Publish, BP!Publish, B!HasRoom, BP!HasRoom, B!RequestCap, BP!RequestCap,
         B!loop, BP!loop, B!inboxes, BP!inboxes, B!history, BP!history
<1>2. B!Start => BP!Start
  BY DEF B!Start, BP!Start, B!Exit, BP!Exit, B!Register, BP!Register, B!Unregister,
         BP!Unregister, B!TakeMessage, BP!TakeMessage, B!Offer, BP!Offer,
         B!Unread, BP!Unread, B!Selecting, BP!Selecting, B!channels, BP!channels,
         B!callers, BP!callers, B!inboxes, BP!inboxes, B!history, BP!history
<1>3. B!Stop => BP!Stop
  BY DEF B!Stop, BP!Stop, B!loop, BP!loop, B!callers, BP!callers, B!inboxes,
         BP!inboxes, B!history, BP!history
<1>4. ASSUME NEW c \in Others \cup {PromCh}
      PROVE  /\ B!Subscribe(c) => BP!Subscribe(c)
             /\ B!Unsubscribe(c) => BP!Unsubscribe(c)
             /\ B!Receive(c) => BP!Receive(c)
  BY DEF B!Subscribe, BP!Subscribe, B!Unsubscribe, BP!Unsubscribe, B!Receive,
         BP!Receive, B!HasRoom, BP!HasRoom, B!RequestCap, BP!RequestCap,
         B!Unread, BP!Unread, B!channels, BP!channels, B!loop, BP!loop,
         B!callers, BP!callers, B!inboxes, BP!inboxes, B!history, BP!history
<1> QED BY <1>1, <1>2, <1>3, <1>4 DEF B!Next, BP!Next

\* Every step is one of the broker's or leaves it alone.
LEMMA NextBroker == [Next]_vars => [B!Next]_(B!vars)
<1> SUFFICES ASSUME [Next]_vars PROVE [B!Next]_(B!vars)
  OBVIOUS
<1>1. CASE UNCHANGED brokerVars
  BY <1>1 DEF brokerVars, B!vars, B!channels, B!loop, B!callers, B!inboxes, B!history
<1>2. CASE ~ UNCHANGED brokerVars
  <2>1. Next
    BY <1>2 DEF vars
  <2>2. ~ Report /\ ~ Set /\ ~ HandleError
    BY <1>2 DEF Report, Set, HandleError
  <2>3. \/ B!Publish \/ B!Register \/ B!TakeMessage
        \/ \E c \in Others \cup {PromCh} : B!Offer(c) \/ B!Subscribe(c) \/ B!Receive(c)
    BY <2>1, <2>2 DEF Next, CreateValue, BrokerStep, Subscribe, Loop, Take
  <2> QED BY <2>3 DEF B!Next, B!Start
<1> QED BY <1>1, <1>2

\* The loop of the exporter and its errors change nothing in the broker, and
\* it uses the broker as module Broker assumes of a subscriber.
THEOREM BrokerRefined == Spec => B!Spec
<1>1. Init => B!Init
  BY DEF Init
<1> QED BY <1>1, NextBroker, PTL DEF Spec, B!Spec

\* What BrokerProofs proves of the broker holds in every reachable state.
THEOREM BrokerInvariance == Spec => []B!IInv
<1>1. BP!Spec => []BP!IInv
  BY BrokerConstants, BP!Invariance
<1>2. B!Init => BP!Init
  BY DEF B!Init, BP!Init
<1>3. [B!Next]_(B!vars) => [BP!Next]_(BP!vars)
  BY SameBrokerSteps DEF B!vars, B!channels, B!loop, B!callers, B!inboxes,
     B!history, BP!vars, BP!channels, BP!loop, BP!callers, BP!inboxes, BP!history
<1>4. B!Spec => BP!Spec
  BY <1>2, <1>3, PTL DEF B!Spec, BP!Spec
<1> QED BY <1>1, <1>4, BrokerRefined, SameBrokerInvariant, PTL

-----------------------------------------------------------------------------
(***************************************************************************)
(* The exporter's channel.                                                 *)
(***************************************************************************)
\* What the proofs need to know of the broker: the channel holds published
\* messages, in order.
Inbox(q, r, p) ==
  /\ q \in Seq(Nat) /\ Len(q) \in Nat /\ r \in Nat /\ r <= Len(q) /\ p \in Nat
  /\ \A i \in 1..Len(q) :
       /\ q[i] \in 1..p
       /\ \A j \in 1..Len(q) : i < j => q[i] < q[j]

InboxOK ==
  /\ Inbox(sent[PromCh], read[PromCh], published)
  /\ DOMAIN sent = Others \cup {PromCh} /\ DOMAIN read = Others \cup {PromCh}
  /\ msg \in Nat

LEMMA InboxHolds ==
  ASSUME B!IInv
  PROVE  InboxOK
<1> DEFINE q == sent[PromCh]
<1>1. /\ msg \in Nat /\ sent \in [Others \cup {PromCh} -> Seq(1..MaxPublish)]
      /\ read \in [Others \cup {PromCh} -> Nat]
      /\ left \in [Others \cup {PromCh} -> 0..MaxPublish]
      /\ joined \in [Others \cup {PromCh} -> 0..MaxPublish]
      /\ msg \in 0..MaxPublish /\ published \in 0..MaxPublish
  BY DEF B!IInv, B!TypeOK, B!Messages
<1>2. q \in Seq(1..MaxPublish) /\ read[PromCh] \in Nat /\ read[PromCh] <= Len(q)
      /\ joined[PromCh] \in Nat /\ left[PromCh] \in Nat /\ left[PromCh] <= msg
  BY <1>1 DEF B!IInv, B!BuffersConsistent, B!SpansConsistent
<1>3. B!Elems(q) \subseteq B!Offered(PromCh)
      /\ \A i, j \in 1..Len(q) : i < j => q[i] < q[j]
  BY DEF B!IInv, B!DeliveredInOrder
<1>4. msg <= published
  BY <1>1 DEF B!IInv, B!BuffersConsistent
<1>5. B!Offered(PromCh) \subseteq 1..published
  BY <1>1, <1>2, <1>4 DEF B!Offered
<1> HIDE DEF q
<1>6. q \in Seq(Nat) /\ Len(q) \in Nat
  BY <1>2
<1>7. \A i \in 1..Len(q) : q[i] \in 1..published
  BY <1>3, <1>5 DEF B!Elems
<1> QED BY <1>1, <1>2, <1>3, <1>6, <1>7 DEF Inbox, InboxOK, q

\* The newest sample of s among the first n messages of q; so is seriesOf.
Heard(q, so, s, n) == {m \in B!Elems(SubSeq(q, 1, n)) : so[m] = s}
NewestIn(q, so, s, n) == Max({None} \cup Heard(q, so, s, n))

Those(q, so, s, n) == {q[i] : i \in {k \in 1..n : so[q[k]] = s}}

LEMMA HeardIs ==
  ASSUME NEW q \in Seq(Nat), NEW so, NEW s, NEW n \in Nat, n <= Len(q)
  PROVE  Heard(q, so, s, n) = Those(q, so, s, n)
<1>1. /\ Len(SubSeq(q, 1, n)) = n
      /\ \A i \in 1..n : SubSeq(q, 1, n)[i] = q[i]
  BY SubSeqProperties, LenProperties
<1>2. B!Elems(SubSeq(q, 1, n)) = {q[i] : i \in 1..n}
  BY <1>1 DEF B!Elems
<1> QED BY <1>2 DEF Heard, Those

\* Only the first n messages and their series count.
LEMMA NewestSame ==
  ASSUME NEW q \in Seq(Nat), NEW q2 \in Seq(Nat), NEW so, NEW so2, NEW s,
         NEW n \in Nat, n <= Len(q), n <= Len(q2),
         \A i \in 1..n : q[i] = q2[i] /\ so[q[i]] = so2[q2[i]]
  PROVE  NewestIn(q, so, s, n) = NewestIn(q2, so2, s, n)
<1>1. Those(q, so, s, n) = Those(q2, so2, s, n)
  <2>1. {k \in 1..n : so[q[k]] = s} = {k \in 1..n : so2[q2[k]] = s}
    OBVIOUS
  <2>2. \A i \in {k \in 1..n : so[q[k]] = s} : q[i] = q2[i]
    OBVIOUS
  <2> QED BY <2>1, <2>2, Zenon DEF Those
<1>2. Heard(q, so, s, n) = Heard(q2, so2, s, n)
  <2>1. Heard(q, so, s, n) = Those(q, so, s, n)
    BY HeardIs
  <2>2. Heard(q2, so2, s, n) = Those(q2, so2, s, n)
    BY HeardIs
  <2> QED BY <1>1, <2>1, <2>2
<1> QED BY <1>2 DEF NewestIn

\* A message of s is newer than all before it; one of another series does
\* not count.
NextCounts(q, so, s, n) ==
  NewestIn(q, so, s, n + 1) = IF so[q[n + 1]] = s THEN q[n + 1] ELSE NewestIn(q, so, s, n)

LEMMA NewestNext ==
  ASSUME NEW q, NEW r, NEW p, Inbox(q, r, p), NEW so, NEW s, NEW n \in Nat, n < Len(q)
  PROVE  NextCounts(q, so, s, n)
<1> DEFINE T(k) == {None} \cup Those(q, so, s, k)
<1>0. NewestIn(q, so, s, n + 1) = Max(T(n + 1)) /\ NewestIn(q, so, s, n) = Max(T(n))
  <2>1. q \in Seq(Nat) /\ n + 1 \in Nat /\ n + 1 <= Len(q) /\ n <= Len(q)
    BY DEF Inbox
  <2>2. Heard(q, so, s, n + 1) = Those(q, so, s, n + 1)
    BY <2>1, HeardIs
  <2>3. Heard(q, so, s, n) = Those(q, so, s, n)
    BY <2>1, HeardIs
  <2> QED BY <2>2, <2>3 DEF NewestIn
<1>1. n + 1 \in 1..Len(q) /\ 1..(n + 1) = (1..n) \cup {n + 1}
  BY DEF Inbox
<1>2. CASE so[q[n + 1]] = s
  <2>1. \A i \in 1..n : q[i] < q[n + 1] /\ q[i] \in Nat
    BY <1>1 DEF Inbox
  <2>2. q[n + 1] \in Nat /\ None \in Int /\ None < q[n + 1]
    BY <1>1 DEF Inbox, None
  <2>3. T(n + 1) = T(n) \cup {q[n + 1]}
    BY <1>1, <1>2 DEF Those
  <2>4. \A x \in T(n) : x \in Int /\ x <= q[n + 1]
    BY <2>1, <2>2 DEF Those
  <2> HIDE DEF T
  <2>5. Max(T(n + 1)) = q[n + 1]
    <3>1. /\ T(n + 1) \subseteq Int /\ q[n + 1] \in T(n + 1)
          /\ \A x \in T(n + 1) : x <= q[n + 1]
      BY <2>2, <2>3, <2>4
    <3> QED BY <3>1, MaxIs
  <2> QED BY <2>5, <1>0, <1>2 DEF NextCounts
<1>3. CASE so[q[n + 1]] # s
  <2>1. T(n + 1) = T(n)
    BY <1>1, <1>3 DEF Those
  <2> QED BY <2>1, <1>0, <1>3 DEF NextCounts
<1> QED BY <1>2, <1>3

-----------------------------------------------------------------------------
(***************************************************************************)
(* The gauges, told with the channel, the position in it and the series of *)
(* the messages as arguments.                                              *)
(***************************************************************************)
Behind(at, q, n, so, map, mess) ==
  \A s \in Series :
    map[s] = IF at # "range" /\ s = so[mess] /\ NewestIn(q, so, s, n) = None
             THEN 0 ELSE NewestIn(q, so, s, n)

LEMMA BehindIs ==
  /\ GaugesBehind <=> Behind(pc, sent[PromCh], Done, seriesOf, metricMap, message)
  /\ GaugesBehind' <=> Behind(pc', sent'[PromCh], Done', seriesOf', metricMap', message')
  BY DEF GaugesBehind, Behind, Newest, NewestIn, Heard

\* More messages, and samples nobody has received yet, change nothing.
LEMMA BehindSame ==
  ASSUME NEW at, NEW q \in Seq(Nat), NEW q2 \in Seq(Nat), NEW n \in Nat,
         n <= Len(q), n <= Len(q2), NEW so, NEW so2, NEW map, NEW mess,
         \A i \in 1..n : q[i] = q2[i] /\ so[q[i]] = so2[q2[i]],
         at # "range" => so[mess] = so2[mess],
         Behind(at, q, n, so, map, mess)
  PROVE  Behind(at, q2, n, so2, map, mess)
<1>1. \A s \in Series : NewestIn(q, so, s, n) = NewestIn(q2, so2, s, n)
  BY NewestSame
<1> QED BY <1>1 DEF Behind

-----------------------------------------------------------------------------
(***************************************************************************)
(* The steps.                                                              *)
(***************************************************************************)
LEMMA InitIInv == Init => IInv
<1> SUFFICES ASSUME Init PROVE IInv
  OBVIOUS
<1>1. /\ seriesOf = <<>> /\ pc = "range" /\ message = 0 /\ errors = 0
      /\ metricMap = [s \in Series |-> None] /\ reported = [s \in Series |-> 0]
      /\ sent[PromCh] = <<>> /\ read[PromCh] = 0 /\ published = 0
  BY DEF Init, B!Init
<1>2. \A s \in Series : Newest(s, 0) = None
  <2> TAKE s \in Series
  <2> DEFINE q == sent[PromCh]
  <2>0. q \in Seq(Nat) /\ 0 \in Nat /\ 0 <= Len(q)
    BY <1>1
  <2> HIDE DEF q
  <2>1. Heard(q, seriesOf, s, 0) = {}
    <3>1. Heard(q, seriesOf, s, 0) = Those(q, seriesOf, s, 0)
      BY <2>0, HeardIs
    <3> QED BY <3>1 DEF Those
  <2>2. {None} \subseteq Int /\ None \in {None} /\ \A x \in {None} : x <= None
    BY DEF None
  <2>3. Max({None}) = None
    BY <2>2, MaxIs
  <2> QED BY <2>1, <2>3 DEF Newest, Heard, q
<1> QED BY <1>1, <1>2 DEF IInv, TypeOK, AtMessage, GaugesBehind, Done, ReportedOnce

\* Where the loop is in the channel.
LEMMA AtIs ==
  ASSUME InboxOK, IInv
  PROVE  /\ sent[PromCh] \in Seq(Nat) /\ Done \in Nat /\ Done <= Len(sent[PromCh])
         /\ pc # "range" => /\ read[PromCh] \in 1..Len(sent[PromCh])
                            /\ Done + 1 = read[PromCh]
                            /\ message \in 1..published
                            /\ seriesOf[message] \in Series
<1>1. pc # "range" => read[PromCh] \in 1..Len(sent[PromCh]) /\ message \in 1..published
  BY DEF InboxOK, Inbox, IInv, AtMessage
<1>2. pc # "range" => seriesOf[message] \in Series
  BY <1>1, ElementOfSeq DEF IInv, TypeOK
<1> QED BY <1>1, <1>2 DEF InboxOK, Inbox, Done

\* A step of the broker or of its callers.
LEMMA ElsewhereIInv ==
  ASSUME InboxOK, InboxOK', IInv, UNCHANGED <<pc, message, metricMap, errors, reported>>,
         read'[PromCh] = read[PromCh],
         \A i \in 1..Len(sent[PromCh]) : sent'[PromCh][i] = sent[PromCh][i],
         Len(sent[PromCh]) <= Len(sent'[PromCh]),
         seriesOf' \in Seq(Series), Len(seriesOf') = published',
         \A m \in 1..published : seriesOf'[m] = seriesOf[m]
  PROVE  IInv'
<1> DEFINE q == sent[PromCh]
           q2 == sent'[PromCh]
<1>1. /\ q \in Seq(Nat) /\ q2 \in Seq(Nat) /\ Len(q) \in Nat /\ Len(q2) \in Nat
      /\ Done \in Nat /\ Done <= Len(q) /\ Done <= Len(q2)
      /\ \A i \in 1..Len(q) : q[i] \in 1..published
  BY AtIs DEF InboxOK, Inbox
<1>2. Done' = Done
  BY DEF Done
<1>3. pc # "range" => seriesOf'[message] = seriesOf[message]
  BY AtIs
<1>4. \A i \in 1..Done : q[i] = q2[i] /\ seriesOf[q[i]] = seriesOf'[q2[i]]
  <2> TAKE i \in 1..Done
  <2>1. i \in 1..Len(q) /\ q[i] = q2[i] /\ q[i] \in 1..published
    BY <1>1
  <2> HIDE DEF q, q2
  <2> QED BY <2>1
<1>5. GaugesBehind'
  <2>1. Behind(pc, q, Done, seriesOf, metricMap, message)
    BY BehindIs DEF IInv
  <2> HIDE DEF q, q2
  <2>2. Behind(pc, q2, Done, seriesOf', metricMap, message)
    BY <1>1, <1>3, <1>4, <2>1, BehindSame
  <2> QED BY <1>2, <2>2, BehindIs DEF q2
<1>6. AtMessage'
  BY AtIs DEF IInv, AtMessage
<1>7. ReportedOnce' /\ (pc' = "report" => seriesOf'[message'] \in Refused)
  BY <1>3 DEF IInv, ReportedOnce
<1>8. TypeOK'
  BY DEF IInv, TypeOK
<1> QED BY <1>5, <1>6, <1>7, <1>8 DEF IInv

LEMMA CreateValueIInv ==
  ASSUME InboxOK, InboxOK', IInv, NEW s \in Series, CreateValue(s)
  PROVE  IInv'
<1>1. /\ UNCHANGED <<pc, message, metricMap, errors, reported, sent, read>>
      /\ seriesOf' = Append(seriesOf, s) /\ published' = published + 1
  BY DEF CreateValue, B!Publish, B!inboxes
<1>2. /\ seriesOf' \in Seq(Series) /\ Len(seriesOf') = published'
      /\ \A m \in 1..published : seriesOf'[m] = seriesOf[m]
  BY <1>1, AppendProperties DEF IInv, TypeOK
<1>3. Len(sent[PromCh]) \in Nat
  BY DEF InboxOK, Inbox
<1>4. /\ read'[PromCh] = read[PromCh] /\ Len(sent[PromCh]) <= Len(sent'[PromCh])
      /\ \A i \in 1..Len(sent[PromCh]) : sent'[PromCh][i] = sent[PromCh][i]
  BY <1>1, <1>3
<1> QED BY <1>1, <1>2, <1>4, ElsewhereIInv, Zenon

LEMMA BrokerStepIInv ==
  ASSUME InboxOK, InboxOK', IInv,
         BrokerStep \/ \E c \in Others \cup {PromCh} : Subscribe(c)
  PROVE  IInv'
<1>1. /\ UNCHANGED <<pc, message, metricMap, errors, reported, read, published, seriesOf>>
      /\ \/ UNCHANGED sent
         \/ \E c \in Others \cup {PromCh} : sent' = [sent EXCEPT ![c] = Append(@, msg)]
  BY DEF BrokerStep, Subscribe, B!Register, B!TakeMessage, B!Offer, B!Subscribe,
         B!callers, B!inboxes
<1>2. /\ sent[PromCh] \in Seq(Nat) /\ Len(sent[PromCh]) \in Nat /\ msg \in Nat
      /\ PromCh \in DOMAIN sent
  BY DEF InboxOK, Inbox
<1>3. sent'[PromCh] = sent[PromCh] \/ sent'[PromCh] = Append(sent[PromCh], msg)
  BY <1>1, <1>2
<1>4. /\ Len(sent[PromCh]) <= Len(sent'[PromCh])
      /\ \A i \in 1..Len(sent[PromCh]) : sent'[PromCh][i] = sent[PromCh][i]
  <2> DEFINE q == sent[PromCh]
  <2>1. q \in Seq(Nat) /\ Len(q) \in Nat /\ msg \in Nat
    BY <1>2
  <2> HIDE DEF q
  <2>2. Len(q) <= Len(Append(q, msg)) /\ \A i \in 1..Len(q) : Append(q, msg)[i] = q[i]
    BY <2>1
  <2>3. Len(q) <= Len(q)
    BY <2>1
  <2> QED BY <1>3, <2>2, <2>3 DEF q
<1> QED BY <1>1, <1>4, ElsewhereIInv DEF IInv, TypeOK

\* The message that Take receives.
LEMMA TakeIs ==
  ASSUME InboxOK, IInv, Take
  PROVE  /\ UNCHANGED <<sent, published, seriesOf, errors, reported>>
         /\ read'[PromCh] = read[PromCh] + 1 /\ read[PromCh] + 1 \in 1..Len(sent[PromCh])
         /\ pc = "range" /\ pc' \in {"report", "set"}
         /\ message' = sent[PromCh][read[PromCh] + 1]
         /\ message' \in 1..published /\ seriesOf[message'] \in Series
         /\ metricMap' = [metricMap EXCEPT ![seriesOf[message']] = IF @ = None THEN 0 ELSE @]
         /\ pc' = "report" <=> metricMap[seriesOf[message']] = None
                               /\ seriesOf[message'] \in Refused
<1>1. /\ UNCHANGED <<sent, published, seriesOf, errors, reported>>
      /\ read' = [read EXCEPT ![PromCh] = @ + 1] /\ Len(sent[PromCh]) - read[PromCh] > 0
  BY DEF Take, B!Receive, B!callers, B!Unread
<1>2. read'[PromCh] = read[PromCh] + 1 /\ read[PromCh] + 1 \in 1..Len(sent[PromCh])
  BY <1>1 DEF InboxOK, Inbox
<1>3. message' = sent[PromCh][read[PromCh] + 1]
  BY <1>2 DEF Take
<1>4. message' \in 1..published
  BY <1>2, <1>3 DEF InboxOK, Inbox
<1>5. seriesOf[message'] \in Series
  BY <1>4, ElementOfSeq DEF IInv, TypeOK
<1> QED BY <1>1, <1>2, <1>3, <1>4, <1>5 DEF Take

LEMMA TakeIInv ==
  ASSUME InboxOK, InboxOK', IInv, Take
  PROVE  IInv'
<1> DEFINE g == seriesOf[message']
<1>0. metricMap \in [Series -> Nat \cup {None}] /\ reported \in [Series -> Nat]
  BY DEF IInv, TypeOK
<1>1. /\ UNCHANGED <<sent, published, seriesOf, errors, reported>>
      /\ read'[PromCh] = read[PromCh] + 1 /\ read[PromCh] + 1 \in 1..Len(sent[PromCh])
      /\ pc = "range" /\ pc' \in {"report", "set"}
      /\ message' = sent[PromCh][read[PromCh] + 1] /\ g \in Series
      /\ metricMap' = [metricMap EXCEPT ![g] = IF @ = None THEN 0 ELSE @]
      /\ pc' = "report" <=> metricMap[g] = None /\ g \in Refused
      /\ pc' # "range" /\ read[PromCh] \in Nat
  BY TakeIs DEF InboxOK, Inbox
<1>2. Done = read[PromCh] /\ Done' = read[PromCh]
  BY <1>1 DEF Done
<1>3. g = seriesOf'[message']
  BY <1>1
<1> HIDE DEF g
<1>4. TypeOK'
  <2>1. metricMap' \in [Series -> Nat \cup {None}]
    BY <1>0, <1>1
  <2> QED BY <2>1, <1>1 DEF IInv, TypeOK
<1>5. AtMessage'
  BY <1>1 DEF AtMessage, InboxOK, Inbox
<1>6. GaugesBehind'
  <2> DEFINE New(s) == NewestIn(sent[PromCh], seriesOf, s, read[PromCh])
  <2>1. \A s \in Series : metricMap[s] = New(s)
    BY <1>1, <1>2, BehindIs DEF IInv, Behind
  <2> HIDE DEF New
  <2>2. \A s \in Series : metricMap'[s] = IF s = g /\ New(s) = None THEN 0 ELSE New(s)
    BY <1>0, <1>1, <2>1
  <2>3. Behind(pc', sent'[PromCh], Done', seriesOf', metricMap', message')
    BY <2>2, <1>1, <1>2, <1>3 DEF Behind, New
  <2> QED BY <2>3, BehindIs
<1>7. pc' = "report" => seriesOf'[message'] \in Refused
  BY <1>1, <1>3
<1>8. ReportedOnce'
  <2>1. \A s \in Series : reported[s] = IF s \in Refused /\ metricMap[s] # None THEN 1 ELSE 0
    BY <1>1 DEF IInv, ReportedOnce
  <2>2. \A s \in Series : metricMap'[s] # None <=> metricMap[s] # None \/ s = g
    BY <1>0, <1>1 DEF None
  <2> QED BY <2>1, <2>2, <1>1, <1>3 DEF ReportedOnce
<1> QED BY <1>4, <1>5, <1>6, <1>7, <1>8 DEF IInv

LEMMA ReportIInv ==
  ASSUME InboxOK, InboxOK', IInv, Report
  PROVE  IInv'
<1> DEFINE g == seriesOf[message]
<1>1. /\ UNCHANGED <<sent, read, published, seriesOf, message, metricMap>>
      /\ pc = "report" /\ pc' = "set" /\ errors < ErrRoom /\ errors' = errors + 1
      /\ reported' = [reported EXCEPT ![g] = @ + 1]
      /\ g \in Series /\ g \in Refused /\ g = seriesOf'[message']
      /\ reported \in [Series -> Nat]
  BY AtIs DEF Report, brokerVars, IInv, TypeOK
<1> HIDE DEF g
<1>2. TypeOK'
  BY <1>1 DEF IInv, TypeOK
<1>3. AtMessage'
  BY <1>1 DEF IInv, AtMessage
<1>4. GaugesBehind'
  BY <1>1, BehindIs DEF IInv, Behind, Done
<1>5. ReportedOnce'
  <2>1. metricMap[g] # None /\ reported[g] = 0
    BY <1>1, BehindIs DEF IInv, Behind, ReportedOnce, None, g
  <2> QED BY <2>1, <1>1 DEF IInv, ReportedOnce, g
<1> QED BY <1>1, <1>2, <1>3, <1>4, <1>5 DEF IInv

LEMMA SetIInv ==
  ASSUME InboxOK, InboxOK', IInv, Set
  PROVE  IInv'
<1> DEFINE g == seriesOf[message]
           q == sent[PromCh]
           n == Done
<1>1. /\ UNCHANGED <<sent, read, published, seriesOf, message, errors, reported>>
      /\ pc = "set" /\ pc' = "range"
      /\ metricMap' = [metricMap EXCEPT ![g] = message]
      /\ metricMap \in [Series -> Nat \cup {None}]
      /\ g \in Series /\ message \in Nat
  BY AtIs DEF Set, brokerVars, IInv, TypeOK
<1>2. /\ Done' = read[PromCh] /\ n \in Nat /\ read[PromCh] = n + 1 /\ n < Len(q)
      /\ message = q[n + 1] /\ Inbox(q, read[PromCh], published)
  BY <1>1, AtIs DEF Done, InboxOK, Inbox, IInv, AtMessage
<1> HIDE DEF g, q, n
<1>3. TypeOK'
  <2>1. metricMap' \in [Series -> Nat \cup {None}]
    BY <1>1
  <2> QED BY <2>1, <1>1 DEF IInv, TypeOK
<1>4. AtMessage'
  BY <1>1 DEF AtMessage
<1>5. GaugesBehind'
  <2>1. ASSUME NEW s \in Series
        PROVE  NextCounts(q, seriesOf, s, n)
    BY <1>2, NewestNext
  <2>2. \A s \in Series \ {g} : metricMap[s] = NewestIn(q, seriesOf, s, n)
    BY <1>1, BehindIs DEF IInv, Behind, g, q, n
  <2>3. \A s \in Series : metricMap'[s] = NewestIn(q, seriesOf, s, n + 1)
    BY <2>1, <2>2, <1>1, <1>2 DEF g, NextCounts
  <2>4. Behind(pc', sent'[PromCh], Done', seriesOf', metricMap', message')
    BY <2>3, <1>1, <1>2 DEF Behind, q
  <2> QED BY <2>4, BehindIs
<1>6. ReportedOnce'
  <2>1. \A s \in Series : reported[s] = IF s \in Refused /\ metricMap[s] # None THEN 1 ELSE 0
    BY <1>1 DEF IInv, ReportedOnce
  <2>2. metricMap[g] # None
    BY <1>1, BehindIs DEF IInv, Behind, None, g
  <2>3. \A s \in Series : metricMap'[s] # None <=> metricMap[s] # None
    BY <2>2, <1>1 DEF None
  <2> QED BY <2>1, <2>3, <1>1 DEF ReportedOnce
<1> QED BY <1>1, <1>3, <1>4, <1>5, <1>6 DEF IInv

LEMMA HandleErrorIInv ==
  ASSUME IInv, HandleError
  PROVE  IInv'
<1>1. /\ UNCHANGED <<sent, read, published, seriesOf, pc, message, metricMap, reported>>
      /\ errors > 0 /\ errors' = errors - 1
  BY DEF HandleError, brokerVars
<1>2. TypeOK'
  BY <1>1 DEF IInv, TypeOK
<1>3. GaugesBehind'
  BY <1>1, BehindIs DEF IInv, Done
<1> QED BY <1>1, <1>2, <1>3 DEF IInv, AtMessage, ReportedOnce

LEMMA NextIInv ==
  ASSUME InboxOK, InboxOK', IInv, [Next]_vars
  PROVE  IInv'
<1>1. ASSUME NEW s \in Series, CreateValue(s) PROVE IInv'
  BY <1>1, CreateValueIInv
<1>2. CASE BrokerStep \/ \E c \in Others \cup {PromCh} : Subscribe(c)
  BY <1>2, BrokerStepIInv
<1>3. CASE Take
  BY <1>3, TakeIInv
<1>4. CASE Report
  BY <1>4, ReportIInv
<1>5. CASE Set
  BY <1>5, SetIInv
<1>6. CASE HandleError
  BY <1>6, HandleErrorIInv
<1>7. CASE UNCHANGED vars
  <2>1. UNCHANGED <<sent, read, published, seriesOf, pc, message, metricMap, errors, reported>>
    BY <1>7 DEF vars, brokerVars
  <2>2. GaugesBehind'
    BY <2>1, BehindIs DEF IInv, Done
  <2> QED BY <2>1, <2>2 DEF IInv, TypeOK, AtMessage, ReportedOnce
<1> QED BY <1>1, <1>2, <1>3, <1>4, <1>5, <1>6, <1>7 DEF Next, Loop

-----------------------------------------------------------------------------
(***************************************************************************)
(* The theorems.                                                           *)
(***************************************************************************)
\* Between the broker and the gauges: where the loop is, what it has taken
\* from its channel, and what it has shown and reported of it.
THEOREM Invariance == Spec => [](InboxOK /\ IInv)
<1>1. Spec => []InboxOK
  BY BrokerInvariance, InboxHolds, PTL
<1>2. Init => IInv
  BY InitIInv
<1>3. InboxOK /\ InboxOK' /\ IInv /\ [Next]_vars => IInv'
  BY NextIInv
<1> QED BY <1>1, <1>2, <1>3, PTL DEF Spec

\* A gauge has the value of the newest sample that the exporter received,
\* whatever the broker dropped and however long the loop was held up.
THEOREM GaugesShowNewest == Spec => []GaugesFollow
<1>1. InboxOK /\ IInv => GaugesFollow
  <2> SUFFICES ASSUME InboxOK, IInv, pc = "range", NEW s \in Series
               PROVE  metricMap[s] = Newest(s, read[PromCh])
    BY DEF GaugesFollow
  <2> QED BY DEF IInv, GaugesBehind, Done
<1> QED BY <1>1, Invariance, PTL

\* A refused name is reported at its first sample and never again.
THEOREM ReportsOnce == Spec => []ReportedOnce
<1>1. IInv => ReportedOnce
  BY DEF IInv
<1> QED BY <1>1, Invariance, PTL

=============================================================================
