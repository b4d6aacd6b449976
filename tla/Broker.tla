------------------------------- MODULE Broker -------------------------------
(***************************************************************************)
(* The message broker of broker/broker.go: one goroutine (Start) that owns *)
(* the set of subscribers and serves four Go channels, and the methods     *)
(* that other goroutines call to use it.                                   *)
(*                                                                         *)
(* A Go channel is the sequence of what it buffers.  A send that would     *)
(* block is an action that is not enabled.  The subscribers' channels are  *)
(* kept as everything ever sent into them and a read position, so that the *)
(* properties can speak about what was delivered, not only about what is   *)
(* still waiting.                                                          *)
(*                                                                         *)
(* A message is the number of the Publish call that made it: 1, 2, ...     *)
(***************************************************************************)
EXTENDS Naturals, Sequences, FiniteSets

CONSTANTS
  Chan,         \* the channels that calls of Subscribe make
  InboxCap,     \* buffer size of such a channel (1024 in the code)
  MaxPublish    \* bound: number of Publish calls

ASSUME BrokerAssumption ==
  /\ IsFiniteSet(Chan)
  /\ InboxCap \in Nat \ {0}
  /\ MaxPublish \in Nat

VARIABLES
  subCh, unsubCh,   \* buffered requests to join and to leave
  publishCh,        \* buffered messages
  stopCh,           \* TRUE once stopCh is closed
  subs,             \* Start: the map of subscribers
  msg,              \* Start: the last message taken from publishCh (0: none)
  todo,             \* Start: subscribers the range loop has not reached yet
  exited,           \* Start has returned
  dropCount,        \* sends given up because the subscriber's buffer was full
  published,        \* number of Publish calls that were accepted
  made,             \* channels that Subscribe has made
  gone,             \* channels passed to Unsubscribe
  sent,             \* sent[c]: everything that was sent into channel c
  read,             \* read[c]: how much of it the subscriber has received
  joined,           \* history: value of msg when c became a subscriber
  left              \* history: value of msg when c ceased to be one

channels == <<subCh, unsubCh, publishCh, stopCh>>
loop     == <<subs, msg, todo, exited, dropCount>>
callers  == <<published, made, gone>>
inboxes  == <<sent, read>>
history  == <<joined, left>>
vars     == <<channels, loop, callers, inboxes, history>>

(***************************************************************************)
(* The three request channels are made with room for one element.          *)
(***************************************************************************)
RequestCap == 1

HasRoom(ch) == Len(ch) < RequestCap

Unread(c) == Len(sent[c]) - read[c]

Elems(s) == {s[i] : i \in 1..Len(s)}

Init ==
  /\ subCh = <<>> /\ unsubCh = <<>> /\ publishCh = <<>>
  /\ stopCh = FALSE
  /\ subs = {} /\ msg = 0 /\ todo = {} /\ exited = FALSE
  /\ dropCount = 0
  /\ published = 0
  /\ made = {} /\ gone = {}
  /\ sent = [c \in Chan |-> <<>>]
  /\ read = [c \in Chan |-> 0]
  /\ joined = [c \in Chan |-> 0]
  /\ left = [c \in Chan |-> 0]

-----------------------------------------------------------------------------
(***************************************************************************)
(* What the callers do.                                                    *)
(***************************************************************************)

\* Subscribe makes a channel and queues it; it returns before Start has
\* seen the request.
Subscribe(c) ==
  /\ c \notin made
  /\ HasRoom(subCh)
  /\ made' = made \cup {c}
  /\ subCh' = Append(subCh, c)
  /\ UNCHANGED <<unsubCh, publishCh, stopCh, loop, published, gone,
                 inboxes, history>>

\* Rejected variant: a subscriber that leaves before its first message.
UnsubscribeEarly(c) ==
  /\ c \in made \ gone
  /\ HasRoom(unsubCh)
  /\ gone' = gone \cup {c}
  /\ unsubCh' = Append(unsubCh, c)
  /\ UNCHANGED <<subCh, publishCh, stopCh, loop, published, made,
                 inboxes, history>>

\* The subscribers call Unsubscribe once, when they leave their loop over
\* the channel, and they leave it only from its body: after a message.
Unsubscribe(c) ==
  /\ c \in made \ gone
  /\ read[c] > 0
  /\ HasRoom(unsubCh)
  /\ gone' = gone \cup {c}
  /\ unsubCh' = Append(unsubCh, c)
  /\ UNCHANGED <<subCh, publishCh, stopCh, loop, published, made,
                 inboxes, history>>

Publish ==
  /\ published < MaxPublish
  /\ HasRoom(publishCh)
  /\ published' = published + 1
  /\ publishCh' = Append(publishCh, published + 1)
  /\ UNCHANGED <<subCh, unsubCh, stopCh, loop, made, gone, inboxes, history>>

\* Closing stopCh twice would panic.
Stop ==
  /\ ~stopCh
  /\ stopCh' = TRUE
  /\ UNCHANGED <<subCh, unsubCh, publishCh, loop, callers, inboxes, history>>

\* One turn of a subscriber's loop: for m := range msgCh.
Receive(c) ==
  /\ c \in made \ gone
  /\ Unread(c) > 0
  /\ read' = [read EXCEPT ![c] = @ + 1]
  /\ UNCHANGED <<channels, loop, callers, sent, history>>

-----------------------------------------------------------------------------
(***************************************************************************)
(* The goroutine Start.  It selects only when the loop over the            *)
(* subscribers has ended; a select takes any of the ready cases.           *)
(***************************************************************************)
SelectingAnytime == ~exited  \* rejected variant: does not wait for the sends

Selecting == ~exited /\ todo = {}

Exit ==
  /\ Selecting
  /\ stopCh
  /\ exited' = TRUE
  /\ UNCHANGED <<channels, subs, msg, todo, dropCount, callers, inboxes,
                 history>>

Register ==
  /\ Selecting
  /\ subCh # <<>>
  /\ subs' = subs \cup {Head(subCh)}
  /\ joined' = [joined EXCEPT ![Head(subCh)] = msg]
  /\ subCh' = Tail(subCh)
  /\ UNCHANGED <<unsubCh, publishCh, stopCh, msg, todo, exited, dropCount,
                 callers, inboxes, left>>

\* delete does nothing for a channel that is not in the map.
Unregister ==
  /\ Selecting
  /\ unsubCh # <<>>
  /\ subs' = subs \ {Head(unsubCh)}
  /\ left' = IF Head(unsubCh) \in subs
             THEN [left EXCEPT ![Head(unsubCh)] = msg]
             ELSE left
  /\ unsubCh' = Tail(unsubCh)
  /\ UNCHANGED <<subCh, publishCh, stopCh, msg, todo, exited, dropCount,
                 callers, inboxes, joined>>

\* case msg := <-b.publishCh, and the start of the range over subs.
TakeMessage ==
  /\ Selecting
  /\ publishCh # <<>>
  /\ msg' = Head(publishCh)
  /\ todo' = subs
  /\ publishCh' = Tail(publishCh)
  /\ UNCHANGED <<subCh, unsubCh, stopCh, subs, exited, dropCount, callers,
                 inboxes, history>>

\* Rejected variants: a send that blocks; a send that forgets whom it served.
OfferBlocking(c) ==
  /\ c \in todo
  /\ Unread(c) < InboxCap
  /\ todo' = todo \ {c}
  /\ sent' = [sent EXCEPT ![c] = Append(@, msg)]
  /\ UNCHANGED <<channels, subs, msg, exited, dropCount, callers, read, history>>

OfferAgain(c) ==
  /\ c \in todo
  /\ Unread(c) < InboxCap
  /\ sent' = [sent EXCEPT ![c] = Append(@, msg)]
  /\ UNCHANGED <<channels, subs, msg, todo, exited, dropCount, callers, read,
                 history>>

\* One turn of the range loop, in map order, which is any order: a send
\* that does not block, or a drop.
Offer(c) ==
  /\ c \in todo
  /\ todo' = todo \ {c}
  /\ \/ /\ Unread(c) < InboxCap
        /\ sent' = [sent EXCEPT ![c] = Append(@, msg)]
        /\ UNCHANGED dropCount
     \/ /\ Unread(c) >= InboxCap
        /\ dropCount' = dropCount + 1
        /\ UNCHANGED sent
  /\ UNCHANGED <<channels, subs, msg, exited, callers, read, history>>

Start ==
  \/ Exit
  \/ Register
  \/ Unregister
  \/ TakeMessage
  \/ \E c \in Chan : Offer(c)

-----------------------------------------------------------------------------
Next ==
  \/ Start
  \/ Publish
  \/ Stop
  \/ \E c \in Chan : Subscribe(c) \/ Unsubscribe(c) \/ Receive(c)

Spec == Init /\ [][Next]_vars

\* Nothing is assumed of the callers: only that the goroutine Start runs.
FairSpec == Spec /\ WF_vars(Start)

-----------------------------------------------------------------------------
(***************************************************************************)
(* Properties.                                                             *)
(***************************************************************************)
Messages == 1..MaxPublish

TypeOK ==
  /\ subCh \in Seq(Chan) /\ unsubCh \in Seq(Chan)
  /\ publishCh \in Seq(Messages)
  /\ stopCh \in BOOLEAN /\ exited \in BOOLEAN
  /\ subs \subseteq Chan /\ todo \subseteq subs
  /\ made \subseteq Chan /\ gone \subseteq made
  /\ msg \in 0..MaxPublish /\ published \in 0..MaxPublish
  /\ dropCount \in Nat
  /\ sent \in [Chan -> Seq(Messages)]
  /\ read \in [Chan -> Nat]
  /\ joined \in [Chan -> 0..MaxPublish]
  /\ left \in [Chan -> 0..MaxPublish]

\* The messages that Start has offered to c: those it took while c was a
\* subscriber, but not the current one if the range loop is yet to reach c.
Offered(c) ==
  LET last == IF c \notin subs THEN left[c] ELSE IF c \in todo THEN msg - 1 ELSE msg
  IN  (joined[c] + 1)..last

\* Every subscriber receives the messages in the order of their Publish
\* calls, none twice, and only messages that were taken while it was a
\* subscriber.
DeliveredInOrder ==
  \A c \in Chan :
    /\ Elems(sent[c]) \subseteq Offered(c)
    /\ \A i, j \in 1..Len(sent[c]) : i < j => sent[c][i] < sent[c][j]

\* DropCount() is exact: it is the number of pairs of a message and a
\* subscriber it was offered to that the subscriber will never receive.
\* With no drops, then, nobody misses a message while subscribed.
Missed == {p \in Chan \X Messages : p[2] \in Offered(p[1]) \ Elems(sent[p[1]])}
DropCountExact == dropCount = Cardinality(Missed)

\* Once Start has served an Unsubscribe, the channel is out of the map for
\* good.  The request to join and the request to leave travel in two
\* channels and select may serve the second one first; what rules the
\* overtaking out is that no subscriber leaves before its first message.
UnsubscribeIsFinal ==
  \A c \in gone : c \notin Elems(unsubCh) => c \notin subs /\ c \notin Elems(subCh)

\* "use non-blocking send to protect the broker" (broker.go:44): a message
\* that Publish accepted is taken and offered to everyone, and every Subscribe
\* is followed by the registration, even when no subscriber ever receives
\* anything.
RequestsServed ==
  /\ publishCh # <<>> ~> (publishCh = <<>> /\ todo = {}) \/ stopCh
  /\ \A c \in Chan : c \in Elems(subCh) ~> c \in subs \/ stopCh

\* Stop ends the goroutine, also while subscribers are behind; what is then
\* in the request channels stays there.
StopEnds == stopCh ~> exited

-----------------------------------------------------------------------------
(***************************************************************************)
(* The inductive invariant behind the safety properties: what the buffers  *)
(* can hold, and that a channel which is not yet a subscriber has no past. *)
(***************************************************************************)
BuffersConsistent ==
  /\ published \in {msg, msg + 1}
  /\ publishCh = IF published = msg THEN <<>> ELSE <<published>>
  /\ subCh = <<>> \/ \E c \in made : subCh = <<c>>
  /\ unsubCh = <<>> \/ \E c \in gone : unsubCh = <<c>>
  /\ \A c \in Chan : read[c] <= Len(sent[c])

\* Start has not seen c yet.
Fresh(c) == c \notin made \/ c \in Elems(subCh)

FreshHasNoPast ==
  \A c \in Chan : Fresh(c) =>
    /\ c \notin subs /\ c \notin gone
    /\ sent[c] = <<>> /\ joined[c] = 0 /\ left[c] = 0

SpansConsistent ==
  \A c \in Chan :
    /\ joined[c] <= msg /\ left[c] <= msg
    /\ c \in todo => joined[c] < msg

IInv ==
  /\ TypeOK
  /\ BuffersConsistent
  /\ FreshHasNoPast
  /\ SpansConsistent
  /\ DeliveredInOrder
  /\ DropCountExact
  /\ UnsubscribeIsFinal
=============================================================================
