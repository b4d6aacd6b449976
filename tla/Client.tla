------------------------------- MODULE Client -------------------------------
(***************************************************************************)
(* The connection of a Graph in the browser (graph.ts) and the window it   *)
(* shows: the web socket with its handlers, the timers they set, and the   *)
(* clocks that computeDateWindow compares.  What the rows do to the data   *)
(* of the graph is in Cache; what the server answers is in RTGraph.        *)
(*                                                                         *)
(* Time is the server's clock.  The client's differs from it by an offset, *)
(* and may be set to another while the page is open.                       *)
(***************************************************************************)
EXTENDS Integers

CONSTANTS
  Offset,         \* differences between the two clocks
  MaxDelay,       \* the time the server's first message may take
  DisableScroll,  \* the option of that name
  MaxSocket,      \* bound: sockets made; the last one does not fail
  MaxTime         \* bound: the time

ASSUME ClientAssumption ==
  /\ Offset \subseteq Int
  /\ MaxDelay \in Nat /\ MaxSocket \in Nat \ {0} /\ MaxTime \in Nat
  /\ DisableScroll \in BOOLEAN

VARIABLES
  now, offset,          \* the server's time; the client's ahead of it
  phase,                \* of each socket: "none" or its readyState
  hello,                \* of each socket: the time in the server's first
                        \*   message while it is under way, else None
  sendTimer,            \* sockets whose onopen has set its timeout
  requested, served,    \* sockets that carried the request; that it was read from
  reconnects,           \* timeouts of reconnect that are pending
  intervals,            \* intervals set by scroll
  t0Server, t0Client,   \* the fields of Graph (None: undefined)
  disconnected,         \* the element has the class rtgraph-disconnected
  heard,                \* history: sockets that delivered a message
  jumped                \* history: the client's clock was set since t0Client

clocks  == <<now, offset, jumped>>
sockets == <<phase, hello, requested, served, heard>>
timers  == <<sendTimer, reconnects, intervals>>
graph   == <<t0Server, t0Client, disconnected>>
vars    == <<clocks, sockets, timers, graph>>

None   == -1
Socket == 1..MaxSocket
Clock  == now + offset      \* new Date() in the browser

InUse(s) == phase[s] \in {"connecting", "open", "closing"}

\* makeGraph and connect, called by the constructor.
Init ==
  /\ now = 0 /\ offset \in Offset /\ jumped = FALSE
  /\ phase = [s \in Socket |-> IF s = 1 THEN "connecting" ELSE "none"]
  /\ hello = [s \in Socket |-> None]
  /\ requested = {} /\ served = {} /\ heard = {}
  /\ sendTimer = {} /\ reconnects = 0 /\ intervals = 0
  /\ t0Server = None /\ t0Client = None
  /\ disconnected = FALSE

-----------------------------------------------------------------------------
(***************************************************************************)
(* The network.                                                            *)
(***************************************************************************)

\* Rejected variant: takes an open socket for a connection that is up.
OpenUnmarks(s) ==
  /\ phase[s] = "connecting"
  /\ phase' = [phase EXCEPT ![s] = "open"]
  /\ sendTimer' = sendTimer \cup {s}
  /\ disconnected' = FALSE
  /\ UNCHANGED <<clocks, hello, requested, served, heard, reconnects, intervals,
                 t0Server, t0Client>>

\* The server accepts the socket, and waits for the request; onopen sets a
\* timeout to send it.
Open(s) ==
  /\ phase[s] = "connecting"
  /\ phase' = [phase EXCEPT ![s] = "open"]
  /\ sendTimer' = sendTimer \cup {s}
  /\ UNCHANGED <<clocks, hello, requested, served, heard, reconnects, intervals, graph>>

\* The server reads the request, takes the time, and Subscribe sends that
\* before all else.
ReadRequest(s) ==
  /\ phase[s] = "open" /\ s \in requested \ served
  /\ served' = served \cup {s}
  /\ hello' = [hello EXCEPT ![s] = now]
  /\ UNCHANGED <<clocks, phase, requested, heard, timers, graph>>

\* Rejected variant: reconnects in onerror as well as in onclose.
ErrorReconnects(s) ==
  /\ s < MaxSocket /\ phase[s] \in {"connecting", "open"}
  /\ phase' = [phase EXCEPT ![s] = "closing"]
  /\ reconnects' = reconnects + 1
  /\ UNCHANGED <<clocks, hello, requested, served, heard, sendTimer, intervals, graph>>

\* onerror: no server, or a broken connection.
Error(s) ==
  /\ s < MaxSocket /\ phase[s] \in {"connecting", "open"}
  /\ phase' = [phase EXCEPT ![s] = "closing"]
  /\ UNCHANGED <<clocks, hello, requested, served, heard, timers, graph>>

\* Rejected variant: gives up if the server was never reached.
CloseForGood(s) ==
  /\ \/ phase[s] = "closing"
     \/ phase[s] = "open" /\ s < MaxSocket
  /\ phase' = [phase EXCEPT ![s] = "closed"]
  /\ hello' = [hello EXCEPT ![s] = None]
  /\ disconnected' = TRUE
  /\ reconnects' = IF t0Server = None THEN reconnects ELSE reconnects + 1
  /\ UNCHANGED <<clocks, requested, served, heard, sendTimer, intervals, t0Server, t0Client>>

\* onclose: after onerror, or because the server closed the connection.
\* What was under way is lost.
Close(s) ==
  /\ \/ phase[s] = "closing"
     \/ phase[s] = "open" /\ s < MaxSocket
  /\ phase' = [phase EXCEPT ![s] = "closed"]
  /\ hello' = [hello EXCEPT ![s] = None]
  /\ disconnected' = TRUE
  /\ reconnects' = reconnects + 1
  /\ UNCHANGED <<clocks, requested, served, heard, sendTimer, intervals, t0Server, t0Client>>

\* scroll, called for the first time only; rejected variant: every time.
ScrollAgain == intervals' = IF DisableScroll THEN intervals ELSE intervals + 1

ScrollIfFirst ==
  intervals' = IF t0Server = None /\ ~DisableScroll THEN intervals + 1 ELSE intervals

\* setDate notes the client's time; rejected variant: the first time only.
ClientTimeOnce == IF t0Client = None THEN Clock ELSE t0Client

ClientTime == Clock

\* onmessage with a time: setDate.
ReceiveNow(s) ==
  /\ phase[s] = "open" /\ hello[s] # None
  /\ disconnected' = FALSE
  /\ t0Server' = hello[s] /\ t0Client' = ClientTime /\ jumped' = FALSE
  /\ ScrollIfFirst
  /\ hello' = [hello EXCEPT ![s] = None]
  /\ heard' = heard \cup {s}
  /\ UNCHANGED <<now, offset, phase, requested, served, sendTimer, reconnects>>

\* onmessage with rows or an error, which the server sends after the time.
ReceiveAnswer(s) ==
  /\ phase[s] = "open" /\ hello[s] = None /\ s \in served
  /\ disconnected' = FALSE
  /\ heard' = heard \cup {s}
  /\ UNCHANGED <<clocks, phase, hello, requested, served, timers, t0Server, t0Client>>

(***************************************************************************)
(* The timers.                                                             *)
(***************************************************************************)

\* onopen's timeout; send is without effect on a socket that is closing or
\* closed.
SendRequest(s) ==
  /\ s \in sendTimer
  /\ sendTimer' = sendTimer \ {s}
  /\ requested' = IF phase[s] = "open" THEN requested \cup {s} ELSE requested
  /\ UNCHANGED <<clocks, phase, hello, served, heard, reconnects, intervals, graph>>

\* reconnect's timeout: connect.
Reconnect(s) ==
  /\ reconnects > 0
  /\ phase[s] = "none" /\ \A r \in 1..(s - 1) : phase[r] # "none"
  /\ reconnects' = reconnects - 1
  /\ phase' = [phase EXCEPT ![s] = "connecting"]
  /\ UNCHANGED <<clocks, hello, requested, served, heard, sendTimer, intervals, graph>>

\* Time passes, but not so much that a message is later than MaxDelay.
Tick ==
  /\ now < MaxTime
  /\ \A s \in Socket : phase[s] = "open" /\ hello[s] # None => now - hello[s] < MaxDelay
  /\ now' = now + 1
  /\ UNCHANGED <<offset, jumped, sockets, timers, graph>>

\* The client's clock is set.
Jump(o) ==
  /\ o # offset
  /\ offset' = o /\ jumped' = TRUE
  /\ UNCHANGED <<now, sockets, timers, graph>>

Next ==
  \/ \E s \in Socket :
       \/ Open(s) \/ ReadRequest(s) \/ Error(s) \/ Close(s)
       \/ ReceiveNow(s) \/ ReceiveAnswer(s)
       \/ SendRequest(s) \/ Reconnect(s)
  \/ Tick
  \/ \E o \in Offset : Jump(o)

Spec == Init /\ [][Next]_vars

\* Timers fire, the browser fires the close event after the error event, and
\* a server that is there is reached and answers.
Fairness ==
  \A s \in Socket : /\ WF_vars(Open(s))
                    /\ WF_vars(ReadRequest(s))
                    /\ WF_vars(Close(s) /\ phase[s] = "closing")
                    /\ WF_vars(ReceiveNow(s))
                    /\ WF_vars(SendRequest(s))
                    /\ WF_vars(Reconnect(s))

FairSpec == Spec /\ Fairness

-----------------------------------------------------------------------------
\* computeDateWindow: the right edge of the window that the interval of
\* scroll gives the chart (windowSize not null).
RightEdge == IF t0Server = None THEN Clock ELSE t0Server + (Clock - t0Client)

\* Every variable has its type.
TypeOK ==
  /\ now \in Nat /\ offset \in Int /\ jumped \in BOOLEAN
  /\ phase \in [Socket -> {"none", "connecting", "open", "closing", "closed"}]
  /\ hello \in [Socket -> Nat \cup {None}]
  /\ UNION {requested, served, heard, sendTimer} \subseteq Socket
  /\ reconnects \in Nat /\ intervals \in Nat
  /\ t0Server \in Nat \cup {None} /\ t0Client \in Int
  /\ disconnected \in BOOLEAN

\* onerror, onclose and reconnect make one chain: there is always one socket
\* in use or one timeout that will make it, and never a second of them.
OneConnection ==
  /\ \A r, s \in Socket : InUse(r) /\ InUse(s) => r = s
  /\ \/ reconnects = 0 /\ \E s \in Socket : InUse(s)
     \/ reconnects = 1 /\ \A s \in Socket : ~InUse(s)

\* setDate starts the scrolling at the first time it is given, whichever
\* connection that comes on, and never again.
ScrollsOnce == intervals = IF t0Server = None \/ DisableScroll THEN 0 ELSE 1

\* "handle case when client and server times don't match": whatever the
\* client's clock shows, the window ends at most MaxDelay before the
\* server's present and never after it, also after reconnecting, unless the
\* client's clock was set since the server last told the time.
WindowFollowsServer ==
  t0Server # None /\ ~jumped => RightEdge \in (now - MaxDelay)..now

\* The element is marked from the moment the connection is lost until a
\* message comes on another one.
MarkedWhileDown ==
  disconnected <=> /\ \E s \in Socket : phase[s] = "closed"
                   /\ \A s \in heard : ~InUse(s)

\* If the failures end, the graph ends up on a connection on which the server
\* has answered the request with its time.
EventuallySubscribed ==
  <>[](\E s \in heard : phase[s] = "open")
-----------------------------------------------------------------------------
(***************************************************************************)
(* The inductive invariant behind the safety properties.                   *)
(***************************************************************************)

\* Nothing is heard of a socket before it is open.
HeardWhenOpen == \A s \in heard : phase[s] \notin {"none", "connecting"}

\* A reconnect is only under way when the element is marked.
MarkedToReconnect == reconnects > 0 => disconnected

\* A message is under way only once the socket has opened, and is not older
\* than MaxDelay.
InTime ==
  \A s \in Socket : hello[s] # None =>
    /\ phase[s] \in {"open", "closing"}
    /\ phase[s] = "open" => hello[s] \in (now - MaxDelay)..now

IInv ==
  /\ TypeOK
  /\ OneConnection
  /\ HeardWhenOpen /\ MarkedToReconnect /\ MarkedWhileDown
  /\ InTime /\ WindowFollowsServer
  /\ ScrollsOnce
=============================================================================
