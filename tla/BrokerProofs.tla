---------------------------- MODULE BrokerProofs ----------------------------
(***************************************************************************)
(* Theorems about the broker, for every set of channels, every buffer size *)
(* and every number of messages: the invariants of module Broker hold.     *)
(***************************************************************************)
EXTENDS Broker, Integers, FiniteSetTheorems, SequenceTheorems, TLAPS

USE BrokerAssumption DEF Messages

-----------------------------------------------------------------------------
(***************************************************************************)
(* Sequences.                                                              *)
(***************************************************************************)

\* What a sequence holds after an append.
LEMMA ElemsAppend ==
  ASSUME NEW S, NEW s \in Seq(S), NEW e \in S
  PROVE  Elems(Append(s, e)) = Elems(s) \cup {e}
  BY DEF Elems

\* The buffers of capacity one, as sets.
LEMMA ElemsShort ==
  /\ Elems(<<>>) = {}
  /\ \A e : Elems(<<e>>) = {e}
  BY DEF Elems

LEMMA ElemsType ==
  ASSUME NEW S, NEW s \in Seq(S)
  PROVE  Elems(s) \subseteq S
  BY DEF Elems

-----------------------------------------------------------------------------
(***************************************************************************)
(* The initial state.                                                      *)
(***************************************************************************)
LEMMA InitIInv == Init => IInv
<1> SUFFICES ASSUME Init PROVE IInv
  OBVIOUS
<1>1. TypeOK
  <2>1. <<>> \in Seq(Chan) /\ <<>> \in Seq(Messages)
    BY EmptySeq
  <2>2. sent \in [Chan -> Seq(Messages)]
    BY <2>1, Zenon DEF Init
  <2>3. /\ read \in [Chan -> Nat]
        /\ joined \in [Chan -> 0..MaxPublish]
        /\ left \in [Chan -> 0..MaxPublish]
    BY DEF Init
  <2>4. subCh = <<>> /\ unsubCh = <<>> /\ publishCh = <<>>
    BY DEF Init
  <2>5. /\ stopCh = FALSE /\ exited = FALSE
        /\ subs = {} /\ todo = {} /\ made = {} /\ gone = {}
        /\ msg = 0 /\ published = 0 /\ dropCount = 0
    BY DEF Init
  <2>6. subCh \in Seq(Chan) /\ unsubCh \in Seq(Chan)
    BY <2>1, <2>4
  <2>7. publishCh \in Seq(Messages)
    BY <2>1, <2>4
  <2>8. /\ stopCh \in BOOLEAN /\ exited \in BOOLEAN
        /\ subs \subseteq Chan /\ todo \subseteq subs
        /\ made \subseteq Chan /\ gone \subseteq made
    BY <2>5
  <2>9. /\ msg \in 0..MaxPublish /\ published \in 0..MaxPublish
        /\ dropCount \in Nat
    BY <2>5
  <2> QED BY <2>2, <2>3, <2>6, <2>7, <2>8, <2>9 DEF TypeOK
<1>2. BuffersConsistent /\ FreshHasNoPast /\ SpansConsistent
  BY ElemsShort DEF Init, BuffersConsistent, FreshHasNoPast, SpansConsistent, Fresh
<1>3. DeliveredInOrder /\ UnsubscribeIsFinal
  BY ElemsShort DEF Init, DeliveredInOrder, UnsubscribeIsFinal
<1>4. Missed = {}
  BY DEF Init, Missed, Offered
<1>5. DropCountExact
  BY <1>4, FS_EmptySet DEF Init, DropCountExact
<1> QED BY <1>1, <1>2, <1>3, <1>5 DEF IInv

-----------------------------------------------------------------------------
(***************************************************************************)
(* Missed messages.  Only a drop changes which messages will be missed.    *)
(***************************************************************************)
Unsent(c) == Offered(c) \ Elems(sent[c])

LEMMA MissedFinite == IsFiniteSet(Missed) /\ Cardinality(Missed) \in Nat
<1>1. IsFiniteSet(Messages)
  BY FS_Interval
<1>2. IsFiniteSet(Chan \X Messages)
  BY <1>1, FS_Product, Zenon
<1>3. Missed \subseteq Chan \X Messages
  BY DEF Missed
<1> QED BY <1>2, <1>3, FS_Subset, FS_CardinalityType, Zenon

LEMMA MissedUnchanged ==
  ASSUME \A c \in Chan : Unsent(c)' = Unsent(c), DropCountExact,
         dropCount' = dropCount
  PROVE  DropCountExact'
  BY DEF Unsent, Missed, DropCountExact

\* The clauses of IInv that mention the past of a channel do not change
\* when neither the loop nor what was sent does.
LEMMA OfferedUnchanged ==
  ASSUME UNCHANGED <<subs, msg, todo, sent, history>>
  PROVE  \A c \in Chan : Offered(c)' = Offered(c) /\ Unsent(c)' = Unsent(c)
  BY DEF Offered, Unsent, Elems, history

-----------------------------------------------------------------------------
(***************************************************************************)
(* The steps of the callers.                                               *)
(***************************************************************************)
LEMMA SubscribeIInv ==
  ASSUME IInv, NEW c \in Chan, Subscribe(c)
  PROVE  IInv'
<1> USE DEF IInv
<1>0. UNCHANGED <<unsubCh, publishCh, stopCh, subs, msg, todo, exited,
                  dropCount, published, gone, sent, read, joined, left>>
  BY DEF Subscribe, loop, inboxes, history
<1>1. subCh = <<>> /\ subCh' = <<c>>
  <2>1. Len(subCh) < 1
    BY DEF Subscribe, HasRoom, RequestCap
  <2>2. subCh = <<>>
    BY <2>1 DEF BuffersConsistent
  <2> QED BY <2>2 DEF Subscribe
<1>2. TypeOK'
  BY <1>0 DEF Subscribe, TypeOK
<1>3. BuffersConsistent'
  BY <1>0, <1>1 DEF Subscribe, BuffersConsistent
<1>4. \A d \in Chan : Fresh(d)' => Fresh(d)
  BY <1>0, <1>1, ElemsShort DEF Subscribe, Fresh
<1>5. FreshHasNoPast'
  BY <1>0, <1>4 DEF FreshHasNoPast
<1>6. SpansConsistent'
  BY <1>0 DEF SpansConsistent
<1>7. DeliveredInOrder' /\ DropCountExact'
  BY <1>0, OfferedUnchanged, MissedUnchanged DEF DeliveredInOrder, Elems, history
<1>8. UnsubscribeIsFinal'
  <2>1. c \notin gone
    BY DEF Subscribe, TypeOK
  <2> QED BY <2>1, <1>0, <1>1, ElemsShort DEF UnsubscribeIsFinal
<1> QED BY <1>2, <1>3, <1>5, <1>6, <1>7, <1>8

LEMMA UnsubscribeIInv ==
  ASSUME IInv, NEW c \in Chan, Unsubscribe(c)
  PROVE  IInv'
<1> USE DEF IInv
<1>0. UNCHANGED <<subCh, publishCh, stopCh, subs, msg, todo, exited,
                  dropCount, published, made, sent, read, joined, left>>
  BY DEF Unsubscribe, loop, inboxes, history
<1>1. unsubCh = <<>> /\ unsubCh' = <<c>>
  <2>1. Len(unsubCh) < 1
    BY DEF Unsubscribe, HasRoom, RequestCap
  <2>2. unsubCh = <<>>
    BY <2>1 DEF BuffersConsistent
  <2> QED BY <2>2 DEF Unsubscribe
<1>2. ~Fresh(c)
  <2>1. Len(sent[c]) > 0
    BY DEF Unsubscribe, BuffersConsistent, TypeOK
  <2> QED BY <2>1 DEF FreshHasNoPast
<1>3. TypeOK'
  BY <1>0 DEF Unsubscribe, TypeOK
<1>4. BuffersConsistent'
  BY <1>0, <1>1 DEF Unsubscribe, BuffersConsistent
<1>5. FreshHasNoPast'
  <2>1. \A d \in Chan : Fresh(d)' => Fresh(d) /\ d # c
    BY <1>0, <1>2 DEF Fresh, Elems
  <2> QED BY <2>1, <1>0 DEF FreshHasNoPast, Unsubscribe
<1>6. SpansConsistent'
  BY <1>0 DEF SpansConsistent
<1>7. DeliveredInOrder' /\ DropCountExact'
  BY <1>0, OfferedUnchanged, MissedUnchanged DEF DeliveredInOrder, Elems, history
<1>8. UnsubscribeIsFinal'
  <2>1. Elems(unsubCh) = {} /\ Elems(unsubCh)' = {c}
    BY <1>1, ElemsShort
  <2>2. Elems(subCh)' = Elems(subCh)
    BY <1>0 DEF Elems
  <2> QED BY <2>1, <2>2, <1>0 DEF UnsubscribeIsFinal, Unsubscribe
<1> QED BY <1>3, <1>4, <1>5, <1>6, <1>7, <1>8

LEMMA PublishIInv ==
  ASSUME IInv, Publish
  PROVE  IInv'
<1> USE DEF IInv
<1>0. UNCHANGED <<subCh, unsubCh, stopCh, subs, msg, todo, exited, dropCount,
                  made, gone, sent, read, joined, left>>
  BY DEF Publish, loop, inboxes, history
<1>1. published = msg /\ publishCh = <<>>
  <2>1. Len(publishCh) < 1
    BY DEF Publish, HasRoom, RequestCap
  <2> QED BY <2>1 DEF BuffersConsistent
<1>2. published' = msg + 1 /\ publishCh' = <<msg + 1>> /\ msg + 1 \in Messages
  BY <1>1 DEF Publish, TypeOK
<1>3. TypeOK'
  BY <1>0, <1>2 DEF TypeOK
<1>4. BuffersConsistent'
  BY <1>0, <1>2 DEF BuffersConsistent, TypeOK
<1>5. FreshHasNoPast'
  BY <1>0 DEF FreshHasNoPast, Fresh, Elems
<1>6. SpansConsistent'
  BY <1>0 DEF SpansConsistent
<1>7. DeliveredInOrder' /\ DropCountExact'
  BY <1>0, OfferedUnchanged, MissedUnchanged DEF DeliveredInOrder, Elems, history
<1>8. UnsubscribeIsFinal'
  BY <1>0 DEF UnsubscribeIsFinal, Elems
<1> QED BY <1>3, <1>4, <1>5, <1>6, <1>7, <1>8

LEMMA ReceiveIInv ==
  ASSUME IInv, NEW c \in Chan, Receive(c)
  PROVE  IInv'
<1> USE DEF IInv
<1>0. UNCHANGED <<subCh, unsubCh, publishCh, stopCh, subs, msg, todo, exited,
                  dropCount, published, made, gone, sent, joined, left>>
  BY DEF Receive, channels, loop, callers, history
<1>1. read' = [read EXCEPT ![c] = @ + 1] /\ read[c] + 1 <= Len(sent[c])
  BY DEF Receive, Unread, TypeOK
<1>2. TypeOK'
  BY <1>0, <1>1 DEF TypeOK
<1>3. BuffersConsistent'
  BY <1>0, <1>1 DEF BuffersConsistent, TypeOK
<1>4. FreshHasNoPast'
  BY <1>0 DEF FreshHasNoPast, Fresh, Elems
<1>5. SpansConsistent'
  BY <1>0 DEF SpansConsistent
<1>6. DeliveredInOrder' /\ DropCountExact'
  BY <1>0, OfferedUnchanged, MissedUnchanged DEF DeliveredInOrder, Elems, history
<1>7. UnsubscribeIsFinal'
  BY <1>0 DEF UnsubscribeIsFinal, Elems
<1> QED BY <1>2, <1>3, <1>4, <1>5, <1>6, <1>7

\* Stop and Exit change flags that no other clause mentions.
LEMMA FlagsIInv ==
  ASSUME IInv,
         UNCHANGED <<subCh, unsubCh, publishCh, subs, msg, todo, dropCount,
                     callers, inboxes, history>>,
         stopCh' \in BOOLEAN, exited' \in BOOLEAN
  PROVE  IInv'
<1> USE DEF IInv, callers, inboxes, history
<1>1. TypeOK'
  BY DEF TypeOK
<1>2. BuffersConsistent' /\ SpansConsistent'
  BY DEF BuffersConsistent, SpansConsistent
<1>3. FreshHasNoPast'
  BY DEF FreshHasNoPast, Fresh, Elems
<1>4. DeliveredInOrder' /\ DropCountExact'
  BY OfferedUnchanged, MissedUnchanged DEF DeliveredInOrder, Elems
<1>5. UnsubscribeIsFinal'
  BY DEF UnsubscribeIsFinal, Elems
<1> QED BY <1>1, <1>2, <1>3, <1>4, <1>5

-----------------------------------------------------------------------------
(***************************************************************************)
(* The steps of Start.                                                     *)
(***************************************************************************)
LEMMA RegisterIInv ==
  ASSUME IInv, Register
  PROVE  IInv'
<1> USE DEF IInv
<1>0. UNCHANGED <<unsubCh, publishCh, stopCh, msg, todo, exited, dropCount,
                  published, made, gone, sent, read, left>>
  BY DEF Register, callers, inboxes
<1>1. PICK c \in made : subCh = <<c>>
  BY DEF Register, BuffersConsistent
<1>2. /\ c \in Chan /\ todo = {}
      /\ subs' = subs \cup {c} /\ subCh' = <<>>
      /\ joined' = [joined EXCEPT ![c] = msg]
  BY <1>1 DEF Register, Selecting, TypeOK
<1>3. /\ c \notin subs /\ c \notin gone
      /\ sent[c] = <<>> /\ joined[c] = 0 /\ left[c] = 0
  BY <1>1, <1>2, ElemsShort DEF FreshHasNoPast, Fresh
<1>4. TypeOK'
  <2>1. subCh' \in Seq(Chan)
    BY <1>2, EmptySeq
  <2>2. subs' \subseteq Chan /\ todo' \subseteq subs'
    BY <1>0, <1>2 DEF TypeOK
  <2>3. joined' \in [Chan -> 0..MaxPublish]
    BY <1>2 DEF TypeOK
  <2> QED BY <2>1, <2>2, <2>3, <1>0 DEF TypeOK
<1>5. BuffersConsistent'
  BY <1>0, <1>2 DEF BuffersConsistent
<1>6. FreshHasNoPast'
  <2>1. \A d \in Chan : Fresh(d)' => d # c /\ Fresh(d)
    BY <1>0, <1>2, ElemsShort DEF Fresh
  <2> QED BY <2>1, <1>0, <1>2 DEF FreshHasNoPast, TypeOK
<1>7. SpansConsistent'
  BY <1>0, <1>2 DEF SpansConsistent, TypeOK
<1>8. \A d \in Chan : Offered(d)' = Offered(d)
  <2>1. Offered(c) = {} /\ Offered(c)' = {}
    BY <1>0, <1>2, <1>3 DEF Offered, TypeOK
  <2>2. \A d \in Chan \ {c} : Offered(d)' = Offered(d)
    BY <1>0, <1>2 DEF Offered, TypeOK
  <2> QED BY <2>1, <2>2
<1>9. DeliveredInOrder'
  BY <1>0, <1>8 DEF DeliveredInOrder, Elems
<1>10. DropCountExact'
  BY <1>0, <1>8, MissedUnchanged DEF Unsent, Elems
<1>11. UnsubscribeIsFinal'
  BY <1>0, <1>2, <1>3, ElemsShort DEF UnsubscribeIsFinal, Elems
<1> QED BY <1>4, <1>5, <1>6, <1>7, <1>9, <1>10, <1>11

LEMMA UnregisterIInv ==
  ASSUME IInv, Unregister
  PROVE  IInv'
<1> USE DEF IInv
<1>0. UNCHANGED <<subCh, publishCh, stopCh, msg, todo, exited, dropCount,
                  published, made, gone, sent, read, joined>>
  BY DEF Unregister, callers, inboxes
<1>1. PICK c \in gone : unsubCh = <<c>>
  BY DEF Unregister, BuffersConsistent
<1>2. /\ c \in Chan /\ todo = {}
      /\ subs' = subs \ {c} /\ unsubCh' = <<>>
      /\ left' = IF c \in subs THEN [left EXCEPT ![c] = msg] ELSE left
  BY <1>1 DEF Unregister, Selecting, TypeOK
<1>3. ~Fresh(c)
  BY <1>2 DEF FreshHasNoPast
<1>4. TypeOK'
  <2>1. unsubCh' \in Seq(Chan)
    BY <1>2, EmptySeq
  <2>2. subs' \subseteq Chan /\ todo' \subseteq subs'
    BY <1>0, <1>2 DEF TypeOK
  <2>3. left' \in [Chan -> 0..MaxPublish]
    BY <1>2 DEF TypeOK
  <2> QED BY <2>1, <2>2, <2>3, <1>0 DEF TypeOK
<1>5. BuffersConsistent'
  BY <1>0, <1>2 DEF BuffersConsistent
<1>6. FreshHasNoPast'
  <2>1. \A d \in Chan : Fresh(d)' => d # c /\ Fresh(d)
    BY <1>0, <1>3 DEF Fresh, Elems
  <2> QED BY <2>1, <1>0, <1>2 DEF FreshHasNoPast, TypeOK
<1>7. SpansConsistent'
  BY <1>0, <1>2 DEF SpansConsistent, TypeOK
<1>8. \A d \in Chan : Offered(d)' = Offered(d)
  BY <1>0, <1>2 DEF Offered, TypeOK
<1>9. DeliveredInOrder'
  BY <1>0, <1>8 DEF DeliveredInOrder, Elems
<1>10. DropCountExact'
  BY <1>0, <1>8, MissedUnchanged DEF Unsent, Elems
<1>11. UnsubscribeIsFinal'
  <2>1. Elems(unsubCh) = {c} /\ Elems(subCh)' = Elems(subCh)
    BY <1>0, <1>1, ElemsShort
  <2>2. c \notin Elems(subCh)
    BY <1>3 DEF Fresh
  <2> QED BY <2>1, <2>2, <1>0, <1>2 DEF UnsubscribeIsFinal
<1> QED BY <1>4, <1>5, <1>6, <1>7, <1>9, <1>10, <1>11

LEMMA TakeMessageIInv ==
  ASSUME IInv, TakeMessage
  PROVE  IInv'
<1> USE DEF IInv
<1>0. UNCHANGED <<subCh, unsubCh, stopCh, subs, exited, dropCount, published,
                  made, gone, sent, read, joined, left>>
  BY DEF TakeMessage, callers, inboxes, history
<1>1. published = msg + 1 /\ publishCh = <<msg + 1>>
  BY DEF TakeMessage, BuffersConsistent
<1>2. /\ todo = {} /\ todo' = subs
      /\ msg' = msg + 1 /\ publishCh' = <<>>
  BY <1>1 DEF TakeMessage, Selecting
<1>3. TypeOK'
  <2>1. publishCh' \in Seq(Messages)
    BY <1>2, EmptySeq
  <2>2. msg' \in 0..MaxPublish /\ todo' \subseteq subs'
    BY <1>0, <1>1, <1>2 DEF TypeOK
  <2> QED BY <2>1, <2>2, <1>0 DEF TypeOK
<1>4. BuffersConsistent'
  BY <1>0, <1>1, <1>2 DEF BuffersConsistent
<1>5. FreshHasNoPast'
  BY <1>0 DEF FreshHasNoPast, Fresh, Elems
<1>6. SpansConsistent'
  BY <1>0, <1>2 DEF SpansConsistent, TypeOK
<1>7. \A d \in Chan : Offered(d)' = Offered(d)
  BY <1>0, <1>2 DEF Offered, TypeOK
<1>8. DeliveredInOrder'
  BY <1>0, <1>7 DEF DeliveredInOrder, Elems
<1>9. DropCountExact'
  BY <1>0, <1>7, MissedUnchanged DEF Unsent, Elems
<1>10. UnsubscribeIsFinal'
  BY <1>0 DEF UnsubscribeIsFinal, Elems
<1> QED BY <1>3, <1>4, <1>5, <1>6, <1>8, <1>9, <1>10

\* What an Offer changes, whether the message is sent or dropped.
LEMMA OfferSpans ==
  ASSUME IInv, NEW c \in Chan, Offer(c)
  PROVE  /\ c \in subs /\ msg \in Messages
         /\ msg \notin Offered(c)
         /\ \A m \in Offered(c) : m < msg
         /\ Offered(c)' = Offered(c) \cup {msg}
         /\ \A d \in Chan \ {c} : Offered(d)' = Offered(d)
<1> USE DEF IInv
<1>0. /\ UNCHANGED <<subs, msg, joined, left>>
      /\ c \in todo /\ todo' = todo \ {c}
  BY DEF Offer, history
<1>1. c \in subs /\ joined[c] < msg /\ msg \in Messages
  BY <1>0 DEF TypeOK, SpansConsistent
<1>2. Offered(c) = (joined[c] + 1)..(msg - 1)
  BY <1>0, <1>1 DEF Offered
<1>3. Offered(c)' = (joined[c] + 1)..msg
  BY <1>0, <1>1 DEF Offered
<1>4. Offered(c)' = Offered(c) \cup {msg}
  BY <1>1, <1>2, <1>3 DEF TypeOK
<1>5. \A d \in Chan \ {c} : Offered(d)' = Offered(d)
  BY <1>0 DEF Offered, TypeOK
<1> QED BY <1>1, <1>2, <1>4, <1>5 DEF TypeOK

\* The clauses that only look at the loop, the buffers and the requests.
LEMMA OfferFrame ==
  ASSUME IInv, NEW c \in Chan, Offer(c)
  PROVE  FreshHasNoPast' /\ SpansConsistent' /\ UnsubscribeIsFinal'
<1> USE DEF IInv
<1>0. /\ UNCHANGED <<subCh, unsubCh, subs, msg, made, gone, joined, left>>
      /\ todo' \subseteq todo
      /\ \A d \in Chan \ {c} : sent'[d] = sent[d]
  BY DEF Offer, channels, callers, history, TypeOK
<1>1. ~Fresh(c)
  BY OfferSpans DEF FreshHasNoPast
<1>2. FreshHasNoPast'
  <2>1. \A d \in Chan : Fresh(d)' => d # c /\ Fresh(d)
    BY <1>0, <1>1 DEF Fresh, Elems
  <2> QED BY <2>1, <1>0 DEF FreshHasNoPast
<1>3. SpansConsistent'
  BY <1>0 DEF SpansConsistent
<1>4. UnsubscribeIsFinal'
  BY <1>0 DEF UnsubscribeIsFinal, Elems
<1> QED BY <1>2, <1>3, <1>4

\* A send: the subscriber has not got the message yet, and now has it.
LEMMA SendIInv ==
  ASSUME IInv, NEW c \in Chan, Offer(c),
         sent' = [sent EXCEPT ![c] = Append(@, msg)], UNCHANGED dropCount
  PROVE  TypeOK' /\ BuffersConsistent' /\ DeliveredInOrder' /\ DropCountExact'
<1> USE DEF IInv
<1>0. UNCHANGED <<subCh, unsubCh, publishCh, stopCh, subs, msg, exited,
                  published, made, gone, read, joined, left>>
  BY DEF Offer, channels, callers, history
<1>1. /\ sent[c] \in Seq(Messages) /\ msg \in Messages
      /\ sent'[c] = Append(sent[c], msg)
      /\ \A d \in Chan \ {c} : sent'[d] = sent[d]
  BY OfferSpans DEF TypeOK
<1>2. /\ Append(sent[c], msg) \in Seq(Messages)
      /\ Len(sent[c]) \in Nat
      /\ Len(sent'[c]) = Len(sent[c]) + 1
      /\ sent'[c][Len(sent[c]) + 1] = msg
      /\ \A i \in 1..Len(sent[c]) : sent'[c][i] = sent[c][i]
  BY <1>1
<1>3. TypeOK'
  <2>1. sent' \in [Chan -> Seq(Messages)]
    BY <1>2 DEF TypeOK
  <2>2. todo' \subseteq subs'
    BY <1>0 DEF Offer, TypeOK
  <2> QED BY <2>1, <2>2, <1>0 DEF TypeOK
<1>4. BuffersConsistent'
  <2>1. \A d \in Chan : read'[d] <= Len(sent'[d])
    <3> TAKE d \in Chan
    <3>1. read[d] \in Nat /\ read[d] <= Len(sent[d])
      BY DEF TypeOK, BuffersConsistent
    <3> QED BY <3>1, <1>0, <1>1, <1>2
  <2> QED BY <2>1, <1>0 DEF BuffersConsistent
<1>5. Elems(sent'[c]) = Elems(sent[c]) \cup {msg}
  BY <1>1, ElemsAppend
<1>6. DeliveredInOrder'
  <2>1. ASSUME NEW d \in Chan PROVE Elems(sent'[d]) \subseteq Offered(d)'
    <3>1. CASE d = c
      BY <3>1, <1>5, OfferSpans DEF DeliveredInOrder
    <3>2. CASE d # c
      BY <3>2, <1>1, OfferSpans DEF DeliveredInOrder
    <3> QED BY <3>1, <3>2
  <2>2. ASSUME NEW d \in Chan,
               NEW i \in 1..Len(sent'[d]), NEW j \in 1..Len(sent'[d]), i < j
        PROVE  sent'[d][i] < sent'[d][j]
    <3>1. CASE d # c
      BY <3>1, <2>2, <1>1 DEF DeliveredInOrder
    <3>2. CASE d = c /\ j \in 1..Len(sent[c])
      BY <3>2, <2>2, <1>2 DEF DeliveredInOrder
    <3>3. CASE d = c /\ j = Len(sent[c]) + 1
      <4>1. i \in 1..Len(sent[c])
        BY <3>3, <2>2, <1>2
      <4>2. sent[c][i] \in Offered(c)
        BY <4>1 DEF DeliveredInOrder, Elems
      <4>3. sent'[c][i] = sent[c][i] /\ sent'[c][j] = msg
        BY <3>3, <4>1, <1>2
      <4> QED BY <3>3, <4>2, <4>3, OfferSpans
    <3> QED BY <3>1, <3>2, <3>3, <2>2, <1>2
  <2> QED BY <2>1, <2>2 DEF DeliveredInOrder
<1>7. DropCountExact'
  <2>1. \A d \in Chan : Unsent(d)' = Unsent(d)
    <3> TAKE d \in Chan
    <3>1. CASE d = c
      BY <3>1, <1>5, OfferSpans DEF Unsent
    <3>2. CASE d # c
      BY <3>2, <1>1, OfferSpans DEF Unsent
    <3> QED BY <3>1, <3>2
  <2> QED BY <2>1, MissedUnchanged
<1> QED BY <1>3, <1>4, <1>6, <1>7

\* A drop: one more message that one subscriber will miss.
LEMMA DropIInv ==
  ASSUME IInv, NEW c \in Chan, Offer(c),
         dropCount' = dropCount + 1, UNCHANGED sent
  PROVE  TypeOK' /\ BuffersConsistent' /\ DeliveredInOrder' /\ DropCountExact'
<1> USE DEF IInv
<1>0. UNCHANGED <<subCh, unsubCh, publishCh, stopCh, subs, msg, exited,
                  published, made, gone, read, joined, left, sent>>
  BY DEF Offer, channels, callers, history
<1>1. TypeOK'
  BY <1>0 DEF Offer, TypeOK
<1>2. BuffersConsistent'
  BY <1>0 DEF BuffersConsistent
<1>3. DeliveredInOrder'
  BY <1>0, OfferSpans DEF DeliveredInOrder
<1>4. Missed' = Missed \cup {<<c, msg>>} /\ <<c, msg>> \notin Missed
  <2>1. msg \notin Elems(sent[c])
    BY OfferSpans DEF DeliveredInOrder
  <2>2. Unsent(c)' = Unsent(c) \cup {msg}
    BY <2>1, <1>0, OfferSpans DEF Unsent
  <2>3. \A d \in Chan \ {c} : Unsent(d)' = Unsent(d)
    BY <1>0, OfferSpans DEF Unsent
  <2>4. /\ Missed = {p \in Chan \X Messages : p[2] \in Unsent(p[1])}
        /\ Missed' = {p \in Chan \X Messages : p[2] \in Unsent(p[1])'}
    BY DEF Missed, Unsent
  <2>5. msg \in Messages /\ msg \notin Unsent(c)
    BY OfferSpans DEF Unsent
  <2>6. \A p \in Chan \X Messages :
           p[2] \in Unsent(p[1])' <=> p[2] \in Unsent(p[1]) \/ p = <<c, msg>>
    BY <2>2, <2>3
  <2> QED BY <2>4, <2>5, <2>6
<1>5. Cardinality(Missed') = Cardinality(Missed) + 1
  BY <1>4, MissedFinite, FS_AddElement
<1>6. DropCountExact'
  BY <1>5 DEF DropCountExact
<1> QED BY <1>1, <1>2, <1>3, <1>6

LEMMA OfferIInv ==
  ASSUME IInv, NEW c \in Chan, Offer(c)
  PROVE  IInv'
<1>1. \/ sent' = [sent EXCEPT ![c] = Append(@, msg)] /\ UNCHANGED dropCount
      \/ dropCount' = dropCount + 1 /\ UNCHANGED sent
  BY DEF Offer
<1>2. TypeOK' /\ BuffersConsistent' /\ DeliveredInOrder' /\ DropCountExact'
  BY <1>1, SendIInv, DropIInv
<1> QED BY <1>2, OfferFrame DEF IInv

-----------------------------------------------------------------------------
(***************************************************************************)
(* The theorems.                                                           *)
(***************************************************************************)
LEMMA NextIInv == IInv /\ [Next]_vars => IInv'
<1> SUFFICES ASSUME IInv, [Next]_vars PROVE IInv'
  OBVIOUS
<1>1. CASE Stop
  BY <1>1, FlagsIInv DEF Stop, loop, channels, IInv, TypeOK
<1>2. CASE Exit
  BY <1>2, FlagsIInv DEF Exit, loop, channels, IInv, TypeOK
<1>3. CASE Register
  BY <1>3, RegisterIInv
<1>4. CASE Unregister
  BY <1>4, UnregisterIInv
<1>5. CASE TakeMessage
  BY <1>5, TakeMessageIInv
<1>6. ASSUME NEW c \in Chan, Offer(c) PROVE IInv'
  BY <1>6, OfferIInv
<1>7. CASE Publish
  BY <1>7, PublishIInv
<1>8. ASSUME NEW c \in Chan, Subscribe(c) PROVE IInv'
  BY <1>8, SubscribeIInv
<1>9. ASSUME NEW c \in Chan, Unsubscribe(c) PROVE IInv'
  BY <1>9, UnsubscribeIInv
<1>10. ASSUME NEW c \in Chan, Receive(c) PROVE IInv'
  BY <1>10, ReceiveIInv
<1>11. CASE UNCHANGED vars
  BY <1>11, FlagsIInv DEF vars, loop, channels, IInv, TypeOK
<1> QED
  BY <1>1, <1>2, <1>3, <1>4, <1>5, <1>6, <1>7, <1>8, <1>9, <1>10, <1>11
  DEF Next, Start

\* The inductive invariant: the broker's buffers, its set of subscribers and
\* the history of every subscriber fit together in every reachable state.
THEOREM Invariance == Spec => []IInv
<1>1. Init => IInv
  BY InitIInv
<1>2. IInv /\ [Next]_vars => IInv'
  BY NextIInv
<1> QED BY <1>1, <1>2, PTL DEF Spec

\* Every variable of the broker keeps its type; the loop only visits
\* subscribers.
THEOREM TypeCorrectness == Spec => []TypeOK
<1>1. IInv => TypeOK
  BY DEF IInv
<1> QED BY <1>1, Invariance, PTL

\* Every subscriber gets what was published while it was one, in the order
\* of the Publish calls and never twice.
THEOREM InOrderDelivery == Spec => []DeliveredInOrder
<1>1. IInv => DeliveredInOrder
  BY DEF IInv
<1> QED BY <1>1, Invariance, PTL

\* DropCount() counts exactly the deliveries that will never happen.
THEOREM ExactDropCount == Spec => []DropCountExact
<1>1. IInv => DropCountExact
  BY DEF IInv
<1> QED BY <1>1, Invariance, PTL

\* A subscriber whose Unsubscribe was served stays out of the map: its
\* Subscribe cannot be served after it.
THEOREM FinalUnsubscribe == Spec => []UnsubscribeIsFinal
<1>1. IInv => UnsubscribeIsFinal
  BY DEF IInv
<1> QED BY <1>1, Invariance, PTL
=============================================================================
