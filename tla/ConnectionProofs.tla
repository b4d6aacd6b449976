-------------------------- MODULE ConnectionProofs --------------------------
(***************************************************************************)
(* Theorems about a browser's connection.  At the browser's end, Client,   *)
(* for every set of clock offsets, every delay and every number of         *)
(* sockets: one connection at a time, one interval, a mark while the       *)
(* connection is down, a window that follows the server's clock.  At the   *)
(* server's end, ComputedSeries, for every Duration, every set of values   *)
(* and every log: the sums of the window, and results that do not depend   *)
(* on when the browser connected.                                          *)
(***************************************************************************)
EXTENDS Client, ComputedSeries, Lemmas

\* The initial state has the types.
LEMMA InitTypes == Init => TypeOK
<1> USE ClientAssumption DEF None, Socket, Clock
<1> SUFFICES ASSUME Init PROVE TypeOK
  OBVIOUS
<1>1. phase \in [Socket -> {"none", "connecting", "open", "closing", "closed"}]
  BY DEF Init
<1>2. hello \in [Socket -> Nat \cup {None}]
  BY DEF Init
<1>3. disconnected \in BOOLEAN /\ jumped \in BOOLEAN
  BY DEF Init
<1> QED
  BY <1>1, <1>2, <1>3 DEF Init, TypeOK

\* Every step keeps the types.
LEMMA StepTypes == TypeOK /\ [Next]_vars => TypeOK'
<1> USE ClientAssumption DEF None, Socket, Clock
<1> SUFFICES ASSUME TypeOK, [Next]_vars
             PROVE  TypeOK'
  OBVIOUS
<1> USE DEF TypeOK
<1>1. ASSUME NEW s \in Socket, Open(s) PROVE TypeOK'
  BY <1>1 DEF Open, clocks, graph
<1>2. ASSUME NEW s \in Socket, Error(s) PROVE TypeOK'
  BY <1>2 DEF Error, clocks, timers, graph
<1>3. ASSUME NEW s \in Socket, Close(s) PROVE TypeOK'
  BY <1>3 DEF Close, clocks
<1>4. ASSUME NEW s \in Socket, ReceiveNow(s) PROVE TypeOK'
  <2>1. intervals' \in Nat
    BY <1>4 DEF ReceiveNow, ScrollIfFirst
  <2>2. hello' \in [Socket -> Nat \cup {None}] /\ t0Server' \in Nat \cup {None}
    BY <1>4 DEF ReceiveNow
  <2>3. disconnected' \in BOOLEAN /\ jumped' \in BOOLEAN
    BY <1>4 DEF ReceiveNow
  <2>4. t0Client' \in Int
    BY <1>4 DEF ReceiveNow, ClientTime
  <2> QED
    BY <1>4, <2>1, <2>2, <2>3, <2>4 DEF ReceiveNow
<1>5. ASSUME NEW s \in Socket, ReceiveAnswer(s) PROVE TypeOK'
  BY <1>5 DEF ReceiveAnswer, clocks, timers
<1>6. ASSUME NEW s \in Socket, SendRequest(s) PROVE TypeOK'
  BY <1>6 DEF SendRequest, clocks, graph
<1>7. ASSUME NEW s \in Socket, Reconnect(s) PROVE TypeOK'
  BY <1>7 DEF Reconnect, clocks, graph
<1>8. CASE Tick
  BY <1>8 DEF Tick, sockets, timers, graph
<1>9. ASSUME NEW o \in Offset, Jump(o) PROVE TypeOK'
  BY <1>9 DEF Jump, sockets, timers, graph
<1>10. ASSUME NEW s \in Socket, ReadRequest(s) PROVE TypeOK'
  BY <1>10 DEF ReadRequest, clocks, timers, graph
<1>11. CASE UNCHANGED vars
  BY <1>11 DEF vars, clocks, sockets, timers, graph
<1> QED
  BY <1>1, <1>2, <1>3, <1>4, <1>5, <1>6, <1>7, <1>8, <1>9, <1>10, <1>11 DEF Next

-----------------------------------------------------------------------------
\* The initial state satisfies the inductive invariant.
LEMMA InitIInv == Init => IInv
<1> SUFFICES ASSUME Init PROVE IInv
  OBVIOUS
<1> USE ClientAssumption DEF None, Socket
<1>1. TypeOK
  BY InitTypes
<1>2. OneConnection
  BY DEF Init, OneConnection, InUse
<1>3. HeardWhenOpen /\ MarkedToReconnect
  BY DEF Init, HeardWhenOpen, MarkedToReconnect
<1>4. MarkedWhileDown
  BY DEF Init, MarkedWhileDown
<1>5. InTime /\ WindowFollowsServer /\ ScrollsOnce
  BY DEF Init, InTime, WindowFollowsServer, ScrollsOnce
<1> QED
  BY <1>1, <1>2, <1>3, <1>4, <1>5 DEF IInv

\* One connection at a time: only Close ends the use of a socket, and only
\* Reconnect, which takes the timeout away, starts that of another.
LEMMA OneConnectionStep == IInv /\ [Next]_vars => OneConnection'
<1> SUFFICES ASSUME IInv, [Next]_vars PROVE OneConnection'
  OBVIOUS
<1> USE ClientAssumption DEF IInv, TypeOK, OneConnection, InUse, Socket
<1>1. ASSUME NEW s \in Socket, Open(s) PROVE OneConnection'
  BY <1>1 DEF Open
<1>2. ASSUME NEW s \in Socket, Error(s) PROVE OneConnection'
  BY <1>2 DEF Error, timers
<1>3. ASSUME NEW s \in Socket, Close(s) PROVE OneConnection'
  BY <1>3 DEF Close
<1>4. ASSUME NEW s \in Socket, Reconnect(s) PROVE OneConnection'
  BY <1>4 DEF Reconnect
<1>5. ASSUME UNCHANGED <<phase, reconnects>> PROVE OneConnection'
  BY <1>5
<1>6. ASSUME NEW s \in Socket, \/ ReceiveNow(s) \/ ReceiveAnswer(s)
                              \/ ReadRequest(s) \/ SendRequest(s)
      PROVE UNCHANGED <<phase, reconnects>>
  BY <1>6 DEF ReceiveNow, ReceiveAnswer, ReadRequest, SendRequest, timers
<1>7. ASSUME Tick \/ (\E o \in Offset : Jump(o)) \/ UNCHANGED vars
      PROVE UNCHANGED <<phase, reconnects>>
  BY <1>7 DEF Tick, Jump, vars, sockets, timers
<1> QED
  BY <1>1, <1>2, <1>3, <1>4, <1>5, <1>6, <1>7 DEF Next

\* The mark: set when a socket closes, taken away by a message, and a
\* message only comes on the one socket in use.
LEMMA MarkStep ==
  IInv /\ [Next]_vars => HeardWhenOpen' /\ MarkedToReconnect' /\ MarkedWhileDown'
<1> SUFFICES ASSUME IInv, [Next]_vars
             PROVE  HeardWhenOpen' /\ MarkedToReconnect' /\ MarkedWhileDown'
  OBVIOUS
<1> USE ClientAssumption DEF IInv, TypeOK, OneConnection, InUse, HeardWhenOpen,
          MarkedToReconnect, MarkedWhileDown, Socket
<1> DEFINE Goal == HeardWhenOpen' /\ MarkedToReconnect' /\ MarkedWhileDown'
<1>1. ASSUME NEW s \in Socket, Open(s) PROVE Goal
  BY <1>1 DEF Open, graph
<1>2. ASSUME NEW s \in Socket, Error(s) PROVE Goal
  BY <1>2 DEF Error, graph, timers
<1>3. ASSUME NEW s \in Socket, Close(s) PROVE Goal
  BY <1>3 DEF Close
<1>4. ASSUME NEW s \in Socket, Reconnect(s) PROVE Goal
  BY <1>4 DEF Reconnect, graph
<1>5. ASSUME NEW s \in Socket, ReceiveNow(s) \/ ReceiveAnswer(s) PROVE Goal
  <2>1. /\ phase[s] = "open" /\ phase' = phase /\ reconnects' = reconnects
        /\ heard' = heard \cup {s}
    BY <1>5 DEF ReceiveNow, ReceiveAnswer, timers
  <2>2. disconnected' = FALSE
    BY <1>5 DEF ReceiveNow, ReceiveAnswer
  <2>3. reconnects = 0
    BY <2>1
  <2>4. HeardWhenOpen' /\ MarkedToReconnect'
    BY <2>1, <2>3
  <2>5. MarkedWhileDown'
    BY <2>1, <2>2
  <2> QED
    BY <2>4, <2>5
<1>6. ASSUME UNCHANGED <<phase, reconnects, heard, disconnected>> PROVE Goal
  BY <1>6
<1>7. ASSUME NEW s \in Socket, ReadRequest(s) \/ SendRequest(s)
      PROVE  UNCHANGED <<phase, reconnects, heard, disconnected>>
  BY <1>7 DEF ReadRequest, SendRequest, timers, graph
<1>8. ASSUME Tick \/ (\E o \in Offset : Jump(o)) \/ UNCHANGED vars
      PROVE  UNCHANGED <<phase, reconnects, heard, disconnected>>
  BY <1>8 DEF Tick, Jump, vars, sockets, timers, graph
<1> QED
  BY <1>1, <1>2, <1>3, <1>4, <1>5, <1>6, <1>7, <1>8 DEF Next

\* The clocks: a message is noted at an age of at most MaxDelay, and after
\* that both clocks advance together.
LEMMA ClockStep == IInv /\ [Next]_vars => InTime' /\ WindowFollowsServer'
<1> SUFFICES ASSUME IInv, [Next]_vars PROVE InTime' /\ WindowFollowsServer'
  OBVIOUS
<1> USE ClientAssumption DEF IInv, TypeOK, InTime, WindowFollowsServer, RightEdge,
          Clock, None, Socket
<1> DEFINE Goal == InTime' /\ WindowFollowsServer'
<1>1. ASSUME NEW s \in Socket, Open(s) PROVE Goal
  <2>1. /\ UNCHANGED <<now, offset, jumped, hello, t0Server, t0Client>>
        /\ phase[s] = "connecting" /\ phase' = [phase EXCEPT ![s] = "open"]
    BY <1>1 DEF Open, graph, clocks
  <2>2. InTime'
    BY <2>1
  <2>3. WindowFollowsServer'
    BY <2>1
  <2> QED BY <2>2, <2>3
<1>2. ASSUME NEW s \in Socket, Error(s) PROVE Goal
  BY <1>2 DEF Error, graph, clocks
<1>3. ASSUME NEW s \in Socket, Close(s) PROVE Goal
  BY <1>3 DEF Close, clocks
<1>4. ASSUME NEW s \in Socket, Reconnect(s) PROVE Goal
  BY <1>4 DEF Reconnect, graph, clocks
<1>5. ASSUME NEW s \in Socket, ReceiveNow(s) PROVE Goal
  <2>1. t0Server' \in (now - MaxDelay)..now /\ t0Client' = Clock
    BY <1>5 DEF ReceiveNow, ClientTime
  <2>2. WindowFollowsServer'
    BY <1>5, <2>1 DEF ReceiveNow
  <2>3. InTime'
    BY <1>5 DEF ReceiveNow
  <2> QED
    BY <2>2, <2>3
<1>6. ASSUME NEW s \in Socket, ReceiveAnswer(s) PROVE Goal
  BY <1>6 DEF ReceiveAnswer, clocks
<1>7. ASSUME NEW s \in Socket, SendRequest(s) PROVE Goal
  BY <1>7 DEF SendRequest, graph, clocks
<1>8. CASE Tick
  BY <1>8 DEF Tick, sockets, graph
<1>9. ASSUME NEW o \in Offset, Jump(o) PROVE Goal
  BY <1>9 DEF Jump, sockets, graph
<1>10. ASSUME NEW s \in Socket, ReadRequest(s) PROVE Goal
  BY <1>10 DEF ReadRequest, graph, clocks
<1>11. CASE UNCHANGED vars
  BY <1>11 DEF vars, clocks, sockets, graph
<1> QED
  BY <1>1, <1>2, <1>3, <1>4, <1>5, <1>6, <1>7, <1>8, <1>9, <1>10, <1>11 DEF Next

\* The interval is set with the first time that is noted.
LEMMA ScrollStep == IInv /\ [Next]_vars => ScrollsOnce'
<1> SUFFICES ASSUME IInv, [Next]_vars PROVE ScrollsOnce'
  OBVIOUS
<1> USE ClientAssumption DEF IInv, TypeOK, ScrollsOnce, None, Socket
<1>1. ASSUME NEW s \in Socket, ReceiveNow(s) PROVE ScrollsOnce'
  BY <1>1 DEF ReceiveNow, ScrollIfFirst
<1>2. ASSUME UNCHANGED <<intervals, t0Server>> PROVE ScrollsOnce'
  BY <1>2
<1>3. ASSUME NEW s \in Socket, \/ Open(s) \/ ReadRequest(s) \/ Error(s) \/ Close(s)
                              \/ ReceiveAnswer(s) \/ SendRequest(s) \/ Reconnect(s)
      PROVE  UNCHANGED <<intervals, t0Server>>
  BY <1>3 DEF Open, ReadRequest, Error, Close, ReceiveAnswer, SendRequest, Reconnect,
              timers, graph
<1>4. ASSUME Tick \/ (\E o \in Offset : Jump(o)) \/ UNCHANGED vars
      PROVE  UNCHANGED <<intervals, t0Server>>
  BY <1>4 DEF Tick, Jump, vars, timers, graph
<1> QED
  BY <1>1, <1>2, <1>3, <1>4 DEF Next

-----------------------------------------------------------------------------
\* The inductive invariant holds.
THEOREM Invariance == Spec => []IInv
<1>1. Init => IInv
  BY InitIInv
<1>2. IInv /\ [Next]_vars => IInv'
  <2>1. IInv => TypeOK
    BY DEF IInv
  <2> QED
    BY <2>1, StepTypes, OneConnectionStep, MarkStep, ClockStep, ScrollStep DEF IInv
<1> QED
  BY <1>1, <1>2, PTL DEF Spec

\* The graph never keeps two connections, nor loses its last.
THEOREM SingleConnection == Spec => []OneConnection
<1>1. IInv => OneConnection
  BY DEF IInv
<1> QED
  BY <1>1, Invariance, PTL

\* The window follows the server's clock, whatever the client's shows.
THEOREM ServerTime == Spec => []WindowFollowsServer
<1>1. IInv => WindowFollowsServer
  BY DEF IInv
<1> QED
  BY <1>1, Invariance, PTL

\* The graph scrolls by one interval, however often it reconnects.
THEOREM SingleInterval == Spec => []ScrollsOnce
<1>1. IInv => ScrollsOnce
  BY DEF IInv
<1> QED
  BY <1>1, Invariance, PTL

\* The element is marked exactly while the connection is down.
THEOREM MarkedDown == Spec => []MarkedWhileDown
<1>1. IInv => MarkedWhileDown
  BY DEF IInv
<1> QED
  BY <1>1, Invariance, PTL

-----------------------------------------------------------------------------
(***************************************************************************)
(* ComputedSeries: samples.                                                *)
(***************************************************************************)
\* A sample's time and value are numbers, and the window has a length.
LEMMA SampleFacts ==
  /\ \A x \in Samples : x.t \in 1..MaxSampleTime /\ x.t \in Nat /\ x.t > 0 /\ x.v \in Int
  /\ Duration \in Nat /\ Duration > 0 /\ MaxSampleTime \in Nat /\ Target \in Int
<1>1. Duration \in Nat /\ Duration > 0 /\ MaxSampleTime \in Nat /\ Target \in Int
  BY ComputedSeriesAssumption
<1>2. \A x \in Samples : x.t \in 1..MaxSampleTime /\ x.v \in Int
  BY ComputedSeriesAssumption DEF Samples
<1> QED BY <1>1, <1>2

-----------------------------------------------------------------------------
(***************************************************************************)
(* Totals.                                                                 *)
(***************************************************************************)
\* A total is made by adding one number after the other.
LEMMA TotalSteps ==
  ASSUME NEW s \in Seq(Int)
  PROVE  \E g \in [0..Len(s) -> Int] :
           /\ g[0] = 0
           /\ \A k \in 1..Len(s) : g[k] = g[k - 1] + s[k]
           /\ g[Len(s)] = Total(s)
<1> DEFINE n == Len(s)
           F == [p \in Int \X (1..n) |-> p[1] + s[p[2]]]
           Eq(f) == f = [t \in SUBSET (DOMAIN s) |->
                           IF t = {} THEN 0 ELSE f[t \ {Max(t)}] + s[Max(t)]]
           h == CHOOSE f : Eq(f)
<1>0. n \in Nat /\ DOMAIN s = 1..n /\ \A k \in 1..n : s[k] \in Int
  BY LenProperties, ElementOfSeq
<1>1. F \in [Int \X (1..n) -> Int]
  BY <1>0
<1>2. PICK f \in [SUBSET (1..n) -> Int] : Unfolds(f, n, 0, F)
  <2> DEFINE V == Int
  <2>1. n \in Nat /\ 0 \in V /\ F \in [V \X (1..n) -> V]
    BY <1>0, <1>1
  <2> HIDE DEF F, n, V, h, Eq
  <2>2. \E f \in [SUBSET (1..n) -> V] : Unfolds(f, n, 0, F)
    BY <2>1, FoldExists
  <2> QED BY <2>2 DEF V
<1>3. Eq(f)
  <2>1. ASSUME NEW t \in SUBSET (1..n), t # {}
        PROVE  F[<<f[t \ {Max(t)}], Max(t)>>] = f[t \ {Max(t)}] + s[Max(t)]
    <3>1. Max(t) \in t
      <4>1. t \subseteq Nat /\ \A x \in t : x <= n
        BY <1>0
      <4> HIDE DEF n
      <4> QED BY <1>0, <2>1, <4>1, GreatestNumber
    <3> QED BY <3>1
  <2> QED BY <1>0, <1>2, <2>1 DEF Unfolds
<1>4. Eq(h)
  <2> HIDE DEF Eq
  <2> QED BY <1>3
<1>5. Total(s) = h[DOMAIN s]
  BY DEF Total, FoldLeft, MapThenFoldSet
<1>6. /\ h[1..0] = 0
      /\ \A k \in 1..n : h[1..k] = h[1..(k - 1)] + s[k]
  <2> HIDE DEF h
  <2>1. 1..0 = {}
    OBVIOUS
  <2>2. \A t \in SUBSET (1..n) :
          h[t] = IF t = {} THEN 0 ELSE h[t \ {Max(t)}] + s[Max(t)]
    BY <1>0, <1>4
  <2>3. ASSUME NEW k \in 1..n PROVE h[1..k] = h[1..(k - 1)] + s[k]
    <3>1. /\ 1..k # {} /\ 1..k \in SUBSET (1..n)
          /\ Max(1..k) = k /\ (1..k) \ {k} = 1..(k - 1)
      <4> HIDE DEF n
      <4> QED BY <1>0, Prefix
    <3> QED BY <2>2, <3>1
  <2> HIDE DEF Eq
  <2> QED BY <2>1, <2>2, <2>3
<1>7. ASSUME NEW k \in 0..n PROVE h[1..k] \in Int
  <2> DEFINE P == {j \in 0..n : h[1..j] \in Int}
  <2> HIDE DEF h
  <2>1. 0 \in P
    BY <1>0, <1>6
  <2>2. \A j \in 1..n : j - 1 \in P => j \in P
    BY <1>0, <1>6
  <2>3. 0..n \subseteq P
    <3> HIDE DEF P, n
    <3> QED BY <1>0, <2>1, <2>2, UpTo
  <2> QED BY <2>3
<1> DEFINE g == [k \in 0..n |-> h[1..k]]
<1>8. /\ g \in [0..n -> Int] /\ g[0] = 0
      /\ \A k \in 1..n : g[k] = g[k - 1] + s[k]
      /\ g[n] = Total(s)
  <2> HIDE DEF h
  <2> QED BY <1>0, <1>5, <1>6, <1>7
<1> QED BY <1>8

\* Nothing else is made so.
LEMMA TotalIs ==
  ASSUME NEW s \in Seq(Int), NEW h,
         h[0] = 0, \A k \in 1..Len(s) : h[k] = h[k - 1] + s[k]
  PROVE  Total(s) = h[Len(s)]
<1>1. PICK g \in [0..Len(s) -> Int] :
        /\ g[0] = 0
        /\ \A k \in 1..Len(s) : g[k] = g[k - 1] + s[k]
        /\ g[Len(s)] = Total(s)
  BY TotalSteps
<1> DEFINE n == Len(s)
           P == {j \in 0..n : g[j] = h[j]}
<1>2. n \in Nat
  BY LenProperties
<1>3. 0 \in P /\ \A j \in 1..n : j - 1 \in P => j \in P
  BY <1>1, <1>2
<1>4. 0..n \subseteq P
  <2> HIDE DEF P, n
  <2> QED BY <1>2, <1>3, UpTo
<1> QED BY <1>1, <1>2, <1>4

\* A total of numbers that are not negative, the last of them positive.
LEMMA TotalPositive ==
  ASSUME NEW s \in Seq(Int), Len(s) > 0, s[Len(s)] > 0,
         \A k \in 1..Len(s) : s[k] >= 0
  PROVE  Total(s) > 0
<1>1. PICK g \in [0..Len(s) -> Int] :
        /\ g[0] = 0
        /\ \A k \in 1..Len(s) : g[k] = g[k - 1] + s[k]
        /\ g[Len(s)] = Total(s)
  BY TotalSteps
<1> DEFINE n == Len(s)
           P == {j \in 0..n : g[j] >= 0}
<1>2. n \in Nat /\ \A k \in 1..n : s[k] \in Int
  BY LenProperties, ElementOfSeq
<1>3. 0 \in P /\ \A j \in 1..n : j - 1 \in P => j \in P
  <2>1. 0 \in P
    BY <1>1, <1>2
  <2>2. ASSUME NEW j \in 1..n, j - 1 \in P PROVE j \in P
    <3>1. g[j] = g[j - 1] + s[j] /\ s[j] >= 0
      BY <1>1
    <3>2. j \in 0..n /\ j - 1 \in 0..n
      BY <1>2
    <3>3. g[j - 1] >= 0
      BY <2>2
    <3>4. g[j - 1] \in Int /\ s[j] \in Int
      BY <1>1, <1>2, <3>2
    <3> QED BY <3>1, <3>2, <3>3, <3>4
  <2> QED BY <2>1, <2>2
<1>4. 0..n \subseteq P
  <2> HIDE DEF P, n
  <2> QED BY <1>2, <1>3, UpTo
<1>5. n - 1 \in P /\ n \in 1..n
  BY <1>2, <1>4
<1>6. g[n] = g[n - 1] + s[n] /\ g[n - 1] >= 0 /\ g[n - 1] \in Int /\ s[n] \in Int
  BY <1>1, <1>2, <1>5
<1> QED BY <1>1, <1>6

-----------------------------------------------------------------------------
\* The values of samples.
Numbers(s) == [n \in DOMAIN s |-> s[n].v]

\* The total of a window is that of its values.
LEMMA NumbersAre ==
  ASSUME NEW s \in Seq(Samples)
  PROVE  /\ Numbers(s) \in Seq(Int) /\ Len(Numbers(s)) = Len(s)
         /\ \A k \in 1..Len(s) : Numbers(s)[k] = s[k].v /\ s[k].v \in Int
         /\ Plain(s) = Total(Numbers(s))
<1>1. Len(s) \in Nat /\ DOMAIN s = 1..Len(s) /\ \A k \in 1..Len(s) : s[k].v \in Int
  <2>1. Len(s) \in Nat /\ DOMAIN s = 1..Len(s)
    BY LenProperties
  <2>2. \A k \in 1..Len(s) : s[k] \in Samples
    BY ElementOfSeq
  <2>3. \A x \in Samples : x.v \in Int
    BY ComputedSeriesAssumption DEF Samples
  <2> QED BY <2>1, <2>2, <2>3
<1>2. Plain(s) = Total(Numbers(s))
  BY DEF Plain, Numbers
<1>3. Numbers(s) \in [1..Len(s) -> Int]
  BY <1>1 DEF Numbers
<1>4. Numbers(s) \in Seq(Int) /\ Len(Numbers(s)) = Len(s)
  BY <1>1, <1>3, SeqDef
<1> QED BY <1>1, <1>2, <1>4 DEF Numbers

\* It is a number.
LEMMA PlainType ==
  ASSUME NEW s \in Seq(Samples)
  PROVE  Plain(s) \in Int
<1> DEFINE N == Numbers(s)
<1>1. N \in Seq(Int) /\ Plain(s) = Total(N)
  BY NumbersAre
<1> HIDE DEF N
<1>2. Len(N) \in Nat /\ \E g \in [0..Len(N) -> Int] : g[Len(N)] = Total(N)
  BY <1>1, TotalSteps, LenProperties
<1> QED BY <1>1, <1>2

\* The sum of a window is that of what leaves it and of what stays.
LEMMA PlainSplit ==
  ASSUME NEW s \in Seq(Samples), NEW n \in 0..Len(s)
  PROVE  /\ SubSeq(s, 1, n) \in Seq(Samples) /\ SubSeq(s, n + 1, Len(s)) \in Seq(Samples)
         /\ Len(SubSeq(s, n + 1, Len(s))) = Len(s) - n
         /\ Plain(s) = Plain(SubSeq(s, 1, n)) + Plain(SubSeq(s, n + 1, Len(s)))
<1> DEFINE L == Len(s)
           a == SubSeq(s, 1, n)
           b == SubSeq(s, n + 1, L)
<1>0. L \in Nat /\ \A k \in 1..L : s[k] \in Samples
  BY LenProperties, ElementOfSeq
<1>1. /\ Len(a) = n /\ a \in Seq(Samples)
      /\ \A k \in 1..n : a[k] = s[k]
  BY <1>0, SubSeqProperties
<1>2. /\ Len(b) = L - n /\ b \in Seq(Samples)
      /\ \A k \in 1..(L - n) : b[k] = s[n + k]
  BY <1>0, SubSeqProperties
<1> HIDE DEF a, b
<1>3. PICK g \in [0..Len(Numbers(s)) -> Int] :
        /\ g[0] = 0
        /\ \A k \in 1..Len(Numbers(s)) : g[k] = g[k - 1] + Numbers(s)[k]
        /\ g[Len(Numbers(s))] = Total(Numbers(s))
  <2>1. Numbers(s) \in Seq(Int)
    BY NumbersAre
  <2> QED BY <2>1, TotalSteps
<1>4. /\ g \in [0..L -> Int] /\ g[0] = 0
      /\ \A k \in 1..L : g[k] = g[k - 1] + s[k].v /\ s[k].v \in Int
      /\ g[L] = Plain(s)
  BY <1>3, NumbersAre
<1>5. Plain(a) = g[n]
  <2>1. /\ Numbers(a) \in Seq(Int) /\ Len(Numbers(a)) = n
        /\ \A k \in 1..n : Numbers(a)[k] = s[k].v
        /\ Plain(a) = Total(Numbers(a))
    BY <1>1, NumbersAre
  <2>2. \A k \in 1..n : g[k] = g[k - 1] + Numbers(a)[k]
    <3>1. \A k \in 1..n : k \in 1..L
      BY <1>0
    <3> QED BY <1>4, <2>1, <3>1
  <2> QED BY <1>4, <2>1, <2>2, TotalIs
<1>6. Plain(b) = g[L] - g[n]
  <2> DEFINE h == [k \in 0..(L - n) |-> g[n + k] - g[n]]
  <2>1. /\ Numbers(b) \in Seq(Int) /\ Len(Numbers(b)) = L - n
        /\ \A k \in 1..(L - n) : Numbers(b)[k] = s[n + k].v
        /\ Plain(b) = Total(Numbers(b))
    BY <1>2, NumbersAre
  <2>2. \A k \in 1..(L - n) : h[k] = h[k - 1] + Numbers(b)[k]
    <3> TAKE k \in 1..(L - n)
    <3>1. /\ n + k \in 1..L /\ (n + k) - 1 = n + (k - 1) /\ n + (k - 1) \in 0..L
          /\ k \in 0..(L - n) /\ k - 1 \in 0..(L - n) /\ n \in 0..L
      BY <1>0
    <3>2. g[n + k] = g[n + (k - 1)] + s[n + k].v
      BY <1>4, <3>1
    <3>3. g[n + k] \in Int /\ g[n + (k - 1)] \in Int /\ g[n] \in Int /\ s[n + k].v \in Int
      <4>1. n + k \in 0..L
        BY <1>0, <3>1
      <4>2. g[n + k] \in Int
        BY <1>4, <4>1
      <4>3. g[n + (k - 1)] \in Int /\ g[n] \in Int
        BY <1>4, <3>1
      <4>4. s[n + k].v \in Int
        BY <1>4, <3>1
      <4> QED BY <4>2, <4>3, <4>4
    <3>4. h[k] = g[n + k] - g[n] /\ h[k - 1] = g[n + (k - 1)] - g[n]
      BY <3>1
    <3>5. Numbers(b)[k] = s[n + k].v
      BY <2>1
    <3> HIDE DEF h
    <3> QED BY <3>2, <3>3, <3>4, <3>5
  <2>3. h[0] = 0 /\ h[L - n] = g[L] - g[n]
    BY <1>0, <1>4
  <2> HIDE DEF h
  <2> QED BY <2>1, <2>2, <2>3, TotalIs
<1>7. g[n] \in Int /\ g[L] \in Int
  BY <1>0, <1>4
<1>8. Plain(s) = Plain(a) + Plain(b)
  BY <1>4, <1>5, <1>6, <1>7
<1> QED BY <1>1, <1>2, <1>8 DEF a, b

\* One more sample.
LEMMA PlainAppend ==
  ASSUME NEW s \in Seq(Samples), NEW x \in Samples
  PROVE  Plain(Append(s, x)) = Plain(s) + x.v
<1> DEFINE a == Append(s, x)
           L == Len(s)
<1>0. L \in Nat /\ Numbers(s) \in Seq(Int) /\ Len(Numbers(s)) = L
  BY LenProperties, NumbersAre
<1>1. /\ a \in Seq(Samples) /\ Len(a) = L + 1 /\ a[L + 1] = x
      /\ \A k \in 1..L : a[k] = s[k]
  BY AppendProperties, LenProperties
<1> HIDE DEF a
<1>2. PICK g \in [0..L -> Int] :
        /\ g[0] = 0
        /\ \A k \in 1..L : g[k] = g[k - 1] + Numbers(s)[k]
        /\ g[L] = Total(Numbers(s))
  BY <1>0, TotalSteps
<1> DEFINE h == [k \in 0..(L + 1) |-> IF k = L + 1 THEN g[L] + x.v ELSE g[k]]
<1>3. /\ Numbers(a) \in Seq(Int) /\ Len(Numbers(a)) = L + 1
      /\ \A k \in 1..(L + 1) : Numbers(a)[k] = a[k].v
      /\ Plain(a) = Total(Numbers(a))
  BY <1>1, NumbersAre
<1>4. \A k \in 1..L : Numbers(s)[k] = s[k].v
  BY NumbersAre
<1>5. h[0] = 0 /\ h[L + 1] = g[L] + x.v
  BY <1>0, <1>2
<1>6. \A k \in 1..(L + 1) : h[k] = h[k - 1] + Numbers(a)[k]
  <2> TAKE k \in 1..(L + 1)
  <2>1. CASE k = L + 1
    BY <1>0, <1>1, <1>3, <2>1
  <2>2. CASE k \in 1..L
    <3>1. /\ k \in 0..(L + 1) /\ k - 1 \in 0..(L + 1) /\ k # L + 1 /\ k - 1 # L + 1
      BY <1>0, <2>2
    <3>2. h[k] = g[k] /\ h[k - 1] = g[k - 1]
      BY <3>1
    <3>3. Numbers(a)[k] = Numbers(s)[k]
      BY <1>1, <1>3, <1>4, <2>2
    <3> QED BY <1>2, <2>2, <3>2, <3>3
  <2> QED BY <1>0, <2>1, <2>2
<1> HIDE DEF h
<1>7. Plain(a) = h[L + 1]
  BY <1>3, <1>5, <1>6, TotalIs
<1> QED BY <1>2, <1>5, <1>7, NumbersAre DEF a

-----------------------------------------------------------------------------
(***************************************************************************)
(* Samples in the order of their times.                                    *)
(***************************************************************************)
\* Two sorted lists of one set are the same.
LEMMA SortedOnce ==
  ASSUME NEW T, T \subseteq Nat, IsFiniteSet(T),
         NEW u \in [1..Cardinality(T) -> T], Increasing(u, Cardinality(T)),
         NEW w \in [1..Cardinality(T) -> T], Increasing(w, Cardinality(T))
  PROVE  \A i \in 1..Cardinality(T) : u[i] = w[i]
<1> DEFINE n == Cardinality(T)
           Bad == {i \in 1..n : u[i] # w[i]}
<1>0. n \in Nat
  BY FS_CardinalityType
<1>1. /\ \A i, j \in 1..n : u[i] = u[j] => i = j
      /\ \A x \in T : \E i \in 1..n : u[i] = x
  BY RankedIsAll
<1>2. /\ \A i, j \in 1..n : w[i] = w[j] => i = j
      /\ \A x \in T : \E i \in 1..n : w[i] = x
  BY RankedIsAll
<1> SUFFICES ASSUME Bad # {} PROVE FALSE
  OBVIOUS
<1>3. Bad \subseteq Nat /\ Bad \subseteq 1..n
  BY <1>0
<1>4. PICK i \in Bad : \A j \in Bad : i <= j
  <2> HIDE DEF Bad
  <2> QED BY <1>3, LeastNumber
<1>5. i \in 1..n /\ u[i] # w[i] /\ u[i] \in T /\ w[i] \in T
  BY <1>4
<1>6. \A j \in 1..n : j < i => u[j] = w[j]
  BY <1>0, <1>3, <1>4
<1>7. PICK j \in 1..n : u[j] = w[i]
  BY <1>1, <1>5
<1>8. PICK k \in 1..n : w[k] = u[i]
  BY <1>2, <1>5
<1>9. i < j
  <2>1. j # i
    BY <1>5, <1>7
  <2>2. ~(j < i)
    BY <1>2, <1>5, <1>6, <1>7, <2>1
  <2> QED BY <1>0, <1>5, <2>1, <2>2
<1>10. i < k
  <2>1. k # i
    BY <1>5, <1>8
  <2>2. ~(k < i)
    BY <1>1, <1>5, <1>6, <1>8, <2>1
  <2> QED BY <1>0, <1>5, <2>1, <2>2
<1>11. u[i] < u[j] /\ w[i] < w[k]
  BY <1>5, <1>9, <1>10 DEF Increasing
<1>12. u[i] \in Nat /\ w[i] \in Nat
  BY <1>5
<1> QED BY <1>7, <1>8, <1>11, <1>12

\* No two samples of a set have the same time.
Distinct(S) == \A x, y \in S : x.t = y.t => x = y

Sorted(s, n) == \A i, j \in 1..n : i < j => s[i].t < s[j].t

TimesOf(S) == {x.t : x \in S}

\* So there are as many times as samples.
LEMMA TimesOfSamples ==
  ASSUME NEW S, S \subseteq Samples, IsFiniteSet(S), Distinct(S)
  PROVE  /\ TimesOf(S) \subseteq Nat /\ IsFiniteSet(TimesOf(S))
         /\ Cardinality(TimesOf(S)) = Cardinality(S)
<1> DEFINE T == TimesOf(S)
           f == [x \in S |-> x.t]
<1>1. \A x \in S : x.t \in Nat
  BY ComputedSeriesAssumption DEF Samples
<1>2. T \subseteq Nat
  BY <1>1 DEF TimesOf
<1>3. f \in Bijection(S, T)
  <2>1. f \in [S -> T] /\ \A y \in T : \E x \in S : f[x] = y
    BY DEF TimesOf
  <2>2. \A x, y \in S : f[x] = f[y] => x = y
    BY DEF Distinct
  <2> HIDE DEF f, T
  <2> QED BY <2>1, <2>2 DEF Bijection, Injection, IsInjective, Surjection
<1> HIDE DEF T, f
<1>4. Cardinality(T) = Cardinality(S) /\ IsFiniteSet(T)
  BY <1>3, FS_Bijection DEF ExistsBijection
<1> QED BY <1>2, <1>4 DEF T

\* What the database returns.
LEMMA ByTimeIs ==
  ASSUME NEW S, S \subseteq Samples, IsFiniteSet(S), Distinct(S)
  PROVE  /\ Cardinality(S) \in Nat
         /\ ByTime(S) \in [1..Cardinality(S) -> S]
         /\ Sorted(ByTime(S), Cardinality(S))
         /\ \A x \in S : \E i \in 1..Cardinality(S) : ByTime(S)[i] = x
         /\ ByTime(S) \in Seq(Samples)
<1> DEFINE T == TimesOf(S)
           n == Cardinality(S)
<1>1. T \subseteq Nat /\ IsFiniteSet(T) /\ Cardinality(T) = n /\ n \in Nat
  BY TimesOfSamples, FS_CardinalityType
<1>2. PICK r \in [1..n -> T] : Increasing(r, n)
  <2> HIDE DEF T, n
  <2>1. \E r \in [1..Cardinality(T) -> T] : Increasing(r, Cardinality(T))
    BY <1>1, Ranking
  <2> QED BY <1>1, <2>1
<1> DEFINE s == [i \in 1..n |-> CHOOSE x \in S : x.t = r[i]]
<1>3. ASSUME NEW i \in 1..n PROVE s[i] \in S /\ s[i].t = r[i]
  <2>1. r[i] \in TimesOf(S)
    BY <1>2
  <2>2. \E x \in S : x.t = r[i]
    BY <2>1 DEF TimesOf
  <2> QED BY <2>2
<1>4. s \in [1..n -> S] /\ Sorted(s, n)
  <2> HIDE DEF s
  <2>1. Sorted(s, n)
    BY <1>2, <1>3 DEF Sorted, Increasing
  <2>2. s \in [1..n -> S]
    BY <1>3 DEF s
  <2> QED BY <2>1, <2>2
<1>5. /\ ByTime(S) \in [1..n -> S] /\ Sorted(ByTime(S), n)
      /\ \A x \in S : \E i \in 1..n : ByTime(S)[i] = x
  <2> DEFINE Rank(x) == Cardinality({y \in S : y.t < x.t})
  <2> HIDE DEF s, T, n
  <2>0. /\ \A a, b \in 1..n : s[a].t = s[b].t => a = b
        /\ \A x \in S : \E b \in 1..n : s[b].t = x.t
        /\ \A a \in 1..n : s[a].t \in Nat
    <3>0. T \subseteq Nat /\ IsFiniteSet(T) /\ r \in [1..Cardinality(T) -> T] /\ Increasing(r, Cardinality(T))
      BY <1>1, <1>2
    <3>1. /\ \A a, b \in 1..n : r[a] = r[b] => a = b
          /\ \A t \in T : \E b \in 1..n : r[b] = t
      <4>1. /\ \A a, b \in 1..Cardinality(T) : r[a] = r[b] => a = b
            /\ \A t \in T : \E b \in 1..Cardinality(T) : r[b] = t
        BY <3>0, RankedIsAll
      <4> QED BY <1>1, <4>1
    <3>2. \A x \in S : x.t \in T
      BY DEF T, TimesOf
    <3>3. \A a, b \in 1..n : s[a].t = s[b].t => a = b
      BY <1>3, <3>1
    <3>4. \A x \in S : \E b \in 1..n : s[b].t = x.t
      <4> TAKE x \in S
      <4>1. PICK b \in 1..n : r[b] = x.t
        BY <3>1, <3>2
      <4> QED BY <1>3, <4>1
    <3>5. \A a \in 1..n : s[a].t \in Nat
      <4> TAKE a \in 1..n
      <4>1. r[a] \in T
        BY <1>2
      <4> QED BY <1>1, <1>3, <4>1
    <3> QED BY <3>3, <3>4, <3>5
  <2>1. ASSUME NEW a \in 1..n PROVE Rank(s[a]) = a - 1
    <3> DEFINE D == {y \in S : y.t < s[a].t}
               g == [b \in 1..(a - 1) |-> s[b]]
    <3>1. IsFiniteSet(1..(a - 1)) /\ Cardinality(1..(a - 1)) = a - 1
      <4>1. a - 1 \in Nat
        BY <1>1
      <4> QED BY <4>1, FS_Interval
    <3>2. \A b \in 1..(a - 1) : b \in 1..n /\ b < a
      BY <1>1
    <3>3. \A b \in 1..(a - 1) : g[b] = s[b] /\ g[b] \in D
      BY <1>3, <1>4, <3>2 DEF Sorted
    <3>4. \A b, c \in 1..(a - 1) : g[b] = g[c] => b = c
      BY <2>0, <3>2, <3>3
    <3>5. \A y \in D : \E b \in 1..(a - 1) : g[b] = y
      <4> SUFFICES ASSUME NEW y \in D PROVE \E b \in 1..(a - 1) : s[b] = y
        BY <3>3
      <4>1. PICK b \in 1..n : s[b].t = y.t
        BY <2>0
      <4>2. s[b] = y
        BY <1>3, <4>1 DEF Distinct
      <4>3. ~(a <= b)
        <5>1. a < b => s[a].t < s[b].t
          BY <1>4 DEF Sorted
        <5>2. s[b].t < s[a].t /\ s[a].t \in Nat /\ s[b].t \in Nat
          BY <2>0, <4>1
        <5> QED BY <1>1, <5>1, <5>2
      <4>4. b \in 1..(a - 1)
        BY <1>1, <4>3
      <4> QED BY <4>2, <4>4
    <3> HIDE DEF D, g
    <3>6. g \in [1..(a - 1) -> D]
      BY <3>3 DEF g
    <3>7. g \in Bijection(1..(a - 1), D)
      BY <3>4, <3>5, <3>6 DEF Bijection, Injection, IsInjective, Surjection
    <3>8. Cardinality(D) = a - 1
      BY <3>1, <3>7, FS_Bijection DEF ExistsBijection
    <3> QED BY <3>8 DEF D
  <2> HIDE DEF Rank
  <2>2. ASSUME NEW a \in 1..n PROVE (CHOOSE x \in S : Rank(x) = a - 1) = s[a]
    <3>1. ASSUME NEW x \in S, Rank(x) = a - 1 PROVE x = s[a]
      <4>1. PICK b \in 1..n : s[b].t = x.t
        BY <2>0
      <4>2. s[b] = x
        BY <1>3, <4>1 DEF Distinct
      <4>3. b - 1 = a - 1
        BY <2>1, <3>1, <4>2
      <4> QED BY <4>2, <4>3
    <3>2. s[a] \in S /\ Rank(s[a]) = a - 1
      BY <1>3, <2>1
    <3> QED BY <3>1, <3>2
  <2>3. ByTime(S) = [a \in 1..n |-> s[a]]
    BY <2>2 DEF ByTime, Rank, n
  <2>4. ByTime(S) = s
    BY <1>4, <2>3
  <2>5. \A x \in S : \E i \in 1..n : s[i] = x
    <3> TAKE x \in S
    <3>1. PICK b \in 1..n : s[b].t = x.t
      BY <2>0
    <3>2. s[b] = x
      BY <1>3, <3>1 DEF Distinct
    <3> QED BY <3>2
  <2> QED BY <1>4, <2>4, <2>5
<1>6. ByTime(S) \in [1..n -> Samples]
  BY <1>5
<1>7. ByTime(S) \in Seq(Samples)
  <2> HIDE DEF n
  <2> QED BY <1>1, <1>6, SeqDef
<1> QED BY <1>1, <1>5, <1>7

\* A part of samples in order is what the database returns for the set of them.
LEMMA ByTimePart ==
  ASSUME NEW s \in Seq(Samples), Rising(s),
         NEW k \in 0..Len(s), NEW b \in 1..(k + 1)
  PROVE  ByTime({s[n] : n \in b..k}) = SubSeq(s, b, k)
<1> DEFINE S == {s[n] : n \in b..k}
           T == TimesOf(S)
           m == k + 1 - b
           u == SubSeq(s, b, k)
<1>0. /\ Len(s) \in Nat /\ m \in Nat
      /\ \A n \in 1..Len(s) : s[n] \in Samples
      /\ \A n \in b..k : n \in 1..Len(s)
  <2>1. Len(s) \in Nat
    BY LenProperties
  <2>2. \A n \in 1..Len(s) : s[n] \in Samples
    BY ElementOfSeq
  <2> QED BY <2>1, <2>2
<1>1. \A n \in 1..Len(s) : s[n].t \in Nat
  BY <1>0, ComputedSeriesAssumption DEF Samples
<1>2. \A i, j \in 1..Len(s) : s[i].t = s[j].t => i = j
  <2> TAKE i, j \in 1..Len(s)
  <2>1. i < j \/ j < i \/ i = j
    BY <1>0
  <2>2. s[i].t \in Nat /\ s[j].t \in Nat
    BY <1>1
  <2> QED BY <2>1, <2>2 DEF Rising
<1>3. S \subseteq Samples /\ Distinct(S)
  BY <1>0, <1>2 DEF Distinct
<1>4. /\ Len(u) = m /\ u \in Seq(Samples)
      /\ \A i \in 1..m : u[i] = s[b + i - 1]
  BY <1>0, SubSeqProperties
<1>5. IsFiniteSet(S) /\ Cardinality(S) = m
  <2> DEFINE f == [i \in 1..m |-> s[b + i - 1]]
  <2>1. \A i \in 1..m : b + i - 1 \in b..k
    BY <1>0
  <2>2. \A n \in b..k : n - b + 1 \in 1..m /\ b + (n - b + 1) - 1 = n
    BY <1>0
  <2>3. \A i, j \in 1..m : f[i] = f[j] => i = j
    <3> TAKE i, j \in 1..m
    <3> HAVE f[i] = f[j]
    <3>1. s[b + i - 1].t = s[b + j - 1].t
      OBVIOUS
    <3>2. b + i - 1 = b + j - 1
      BY <1>0, <1>2, <2>1, <3>1
    <3> QED BY <1>0, <3>2
  <2>4. f \in [1..m -> S] /\ \A x \in S : \E i \in 1..m : f[i] = x
    BY <2>1, <2>2
  <2> HIDE DEF f, S, m
  <2>5. f \in Bijection(1..m, S)
    BY <2>3, <2>4 DEF Bijection, Injection, IsInjective, Surjection
  <2>6. IsFiniteSet(1..m) /\ Cardinality(1..m) = m
    <3>1. m \in Nat
      BY <1>0
    <3> QED BY <3>1, FS_Interval
  <2> QED BY <2>5, <2>6, FS_Bijection DEF ExistsBijection
<1> HIDE DEF S, u, m
<1> DEFINE w == ByTime(S)
<1>6. w \in [1..m -> S] /\ Sorted(w, m)
  BY <1>3, <1>5, ByTimeIs
<1>7. \A i \in 1..m : u[i] \in S /\ b + i - 1 \in 1..Len(s)
  <2> TAKE i \in 1..m
  <2>1. b + i - 1 \in b..k
    BY <1>0 DEF m
  <2>2. u[i] \in S
    BY <1>4, <2>1 DEF S
  <2> QED BY <1>0, <2>1, <2>2
<1>8. Sorted(u, m)
  <2> SUFFICES ASSUME NEW i \in 1..m, NEW j \in 1..m, i < j PROVE u[i].t < u[j].t
    BY DEF Sorted
  <2>1. b + i - 1 < b + j - 1
    BY <1>0
  <2> QED BY <1>4, <1>7, <2>1 DEF Rising
<1> HIDE DEF w
<1> DEFINE ut == [i \in 1..m |-> u[i].t]
           wt == [i \in 1..m |-> w[i].t]
<1>9. /\ T \subseteq Nat /\ IsFiniteSet(T) /\ Cardinality(T) = m
  BY <1>3, <1>5, TimesOfSamples
<1>10. /\ ut \in [1..m -> T] /\ Increasing(ut, m)
       /\ wt \in [1..m -> T] /\ Increasing(wt, m)
  BY <1>6, <1>7, <1>8 DEF TimesOf, Increasing, Sorted
<1>11. \A i \in 1..m : ut[i] = wt[i]
  <2> HIDE DEF ut, wt, T
  <2> QED BY <1>9, <1>10, SortedOnce
<1>12. \A i \in 1..m : u[i] = w[i]
  <2> TAKE i \in 1..m
  <2>1. u[i] \in S /\ w[i] \in S /\ u[i].t = w[i].t
    BY <1>6, <1>7, <1>11
  <2> QED BY <1>3, <2>1 DEF Distinct
<1>13. DOMAIN u = 1..m /\ DOMAIN w = 1..m /\ u = [i \in DOMAIN u |-> u[i]]
  BY <1>4, <1>6, LenProperties
<1>14. u = w
  BY <1>6, <1>12, <1>13
<1> QED BY <1>14 DEF u, w, S

-----------------------------------------------------------------------------
(***************************************************************************)
(* The log and the rows of the database.                                   *)
(***************************************************************************)
\* A row is a sample, there is one for a time, and every sample has its row
\* if none was late.
LEMMA RowsAre ==
  ASSUME NEW s \in Seq(Samples)
  PROVE  /\ Rows(s) \subseteq Samples /\ IsFiniteSet(Rows(s)) /\ Distinct(Rows(s))
         /\ Rising(s) => Rows(s) = {s[n] : n \in 1..Len(s)}
<1> DEFINE L == Len(s)
           First == {q \in 1..L : \A p \in 1..(q - 1) : s[p].t # s[q].t}
           f == [n \in First |-> s[n]]
<1>0. L \in Nat /\ \A n \in 1..L : s[n] \in Samples
  BY LenProperties, ElementOfSeq
<1>1. Rows(s) = {s[n] : n \in First}
  BY DEF Rows
<1>2. Rows(s) \subseteq Samples
  BY <1>0, <1>1
<1>3. IsFiniteSet(Rows(s))
  <2>1. IsFiniteSet(First)
    <3>1. First \in SUBSET (1..L) /\ IsFiniteSet(1..L)
      BY <1>0, FS_Interval
    <3> HIDE DEF First
    <3> QED BY <3>1, FS_Subset
  <2> HIDE DEF First
  <2>2. IsFiniteSet({s[n] : n \in First})
    <3>1. f \in Surjection(First, {s[n] : n \in First})
      BY DEF Surjection
    <3> HIDE DEF f
    <3> QED BY <2>1, <3>1, FS_Surjection
  <2> QED BY <1>1, <2>2
<1>4. Distinct(Rows(s))
  <2> SUFFICES ASSUME NEW n \in First, NEW m \in First, s[n].t = s[m].t
               PROVE  s[n] = s[m]
    BY <1>1 DEF Distinct
  <2>1. n \in 1..L /\ m \in 1..L
    OBVIOUS
  <2>2. ~(n < m)
    <3>1. n < m => n \in 1..(m - 1)
      BY <1>0, <2>1
    <3> QED BY <3>1
  <2>3. ~(m < n)
    <3>1. m < n => m \in 1..(n - 1)
      BY <1>0, <2>1
    <3> QED BY <3>1
  <2>4. n = m
    BY <1>0, <2>1, <2>2, <2>3
  <2> QED BY <2>4
<1>5. ASSUME Rising(s) PROVE First = 1..L
  <2> SUFFICES ASSUME NEW q \in 1..L, NEW p \in 1..(q - 1) PROVE s[p].t # s[q].t
    OBVIOUS
  <2>1. p \in 1..L /\ p < q
    BY <1>0
  <2>2. s[p].t < s[q].t
    BY <1>5, <2>1 DEF Rising
  <2>3. s[p].t \in Nat /\ s[q].t \in Nat
    BY <1>0, <2>1, ComputedSeriesAssumption DEF Samples
  <2> QED BY <2>2, <2>3
<1> QED BY <1>1, <1>2, <1>3, <1>4, <1>5

\* Some rows.
LEMMA SomeRows ==
  ASSUME NEW s \in Seq(Samples), NEW S \in SUBSET Rows(s)
  PROVE  S \subseteq Samples /\ IsFiniteSet(S) /\ Distinct(S)
<1>1. Rows(s) \subseteq Samples /\ IsFiniteSet(Rows(s)) /\ Distinct(Rows(s))
  BY RowsAre
<1>2. IsFiniteSet(S)
  BY <1>1, FS_Subset
<1> QED BY <1>1, <1>2 DEF Distinct

\* No sample was late: each is later than all before it.
LEMMA NoneLate ==
  ASSUME NEW s \in Seq(Samples), LateCount(s) = 0
  PROVE  Rising(s)
<1> DEFINE L == Len(s)
           Late == {n \in 2..L : s[n].t <= s[n - 1].t}
<1>0. L \in Nat /\ \A n \in 1..L : s[n].t \in Nat
  <2>1. L \in Nat /\ \A n \in 1..L : s[n] \in Samples
    BY LenProperties, ElementOfSeq
  <2> QED BY <2>1, ComputedSeriesAssumption DEF Samples
<1>1. Late = {}
  <2>1. Cardinality(Late) = 0
    BY DEF LateCount
  <2>2. IsFiniteSet(Late)
    <3>1. Late \in SUBSET (2..L) /\ IsFiniteSet(2..L)
      BY <1>0, FS_Interval
    <3> HIDE DEF Late
    <3> QED BY <3>1, FS_Subset
  <2> HIDE DEF Late
  <2> QED BY <2>1, <2>2, FS_EmptySet
<1>2. \A n \in 2..L : s[n - 1].t < s[n].t
  <2> TAKE n \in 2..L
  <2>1. ~(s[n].t <= s[n - 1].t)
    BY <1>1
  <2>2. n \in 1..L /\ n - 1 \in 1..L
    BY <1>0
  <2> QED BY <1>0, <2>1, <2>2
<1> DEFINE P == {j \in 0..L : \A i \in 1..j : i < j => s[i].t < s[j].t}
<1>3. 0 \in P /\ \A j \in 1..L : j - 1 \in P => j \in P
  <2>1. 0 \in P
    BY <1>0
  <2>2. ASSUME NEW j \in 1..L, j - 1 \in P, NEW i \in 1..j, i < j
        PROVE  s[i].t < s[j].t
    <3>1. i \in 1..(j - 1) /\ i \in 1..L
      BY <1>0, <2>2
    <3>2. j \in 2..L /\ j - 1 \in 1..L
      BY <1>0, <3>1
    <3>3. s[j - 1].t < s[j].t
      BY <1>2, <3>2
    <3>4. i < j - 1 => s[i].t < s[j - 1].t
      BY <2>2, <3>1
    <3>5. i = j - 1 \/ i < j - 1
      BY <1>0, <3>1
    <3>6. s[i].t \in Nat /\ s[j].t \in Nat /\ s[j - 1].t \in Nat
      BY <1>0, <3>1, <3>2
    <3> QED BY <3>3, <3>4, <3>5, <3>6
  <2>3. \A j \in 1..L : j - 1 \in P => j \in P
    BY <1>0, <2>2
  <2> QED BY <2>1, <2>3
<1>4. 0..L \subseteq P
  <2> HIDE DEF P, L
  <2> QED BY <1>0, <1>3, UpTo
<1>5. ASSUME NEW i \in 1..L, NEW j \in 1..L, i < j PROVE s[i].t < s[j].t
  <2>1. j \in P /\ i \in 1..j
    BY <1>0, <1>4, <1>5
  <2> QED BY <1>5, <2>1
<1> QED BY <1>5 DEF Rising

\* A part of a log in order is in order.
LEMMA LateBefore ==
  ASSUME NEW s \in Seq(Samples), NEW x \in Samples, LateCount(Append(s, x)) = 0
  PROVE  LateCount(s) = 0
<1> DEFINE a == Append(s, x)
           LateIn(q) == {n \in 2..Len(q) : q[n].t <= q[n - 1].t}
<1>0. /\ Len(s) \in Nat /\ Len(a) = Len(s) + 1
      /\ \A n \in 1..Len(s) : a[n] = s[n]
  BY AppendProperties, LenProperties
<1> HIDE DEF a
<1>1. LateIn(a) = {}
  <2>1. Cardinality(LateIn(a)) = 0
    BY DEF LateCount, a
  <2>2. IsFiniteSet(LateIn(a))
    <3>1. LateIn(a) \in SUBSET (2..Len(a)) /\ IsFiniteSet(2..Len(a))
      BY <1>0, FS_Interval
    <3> HIDE DEF LateIn
    <3> QED BY <3>1, FS_Subset
  <2> HIDE DEF LateIn
  <2> QED BY <2>1, <2>2, FS_EmptySet
<1>2. LateIn(s) = {}
  <2> SUFFICES ASSUME NEW n \in 2..Len(s), s[n].t <= s[n - 1].t PROVE FALSE
    OBVIOUS
  <2>1. n \in 1..Len(s) /\ n - 1 \in 1..Len(s) /\ n \in 2..Len(a)
    BY <1>0
  <2>2. a[n] = s[n] /\ a[n - 1] = s[n - 1]
    BY <1>0, <2>1
  <2> QED BY <1>1, <2>1, <2>2
<1>3. Cardinality(LateIn(s)) = 0
  <2> HIDE DEF LateIn
  <2> QED BY <1>2, FS_EmptySet
<1> QED BY <1>3 DEF LateCount

-----------------------------------------------------------------------------
(***************************************************************************)
(* The operator.                                                           *)
(***************************************************************************)
SumsOf(o) == o.count = Len(o.values) /\ o.sum = Plain(o.values)

\* removeOld takes off no more than there is.
LEMMA OldCountRange ==
  ASSUME NEW s \in Seq(Samples), NEW at
  PROVE  OldCount(s, at) \in 0..Len(s)
<1> DEFINE Old == {n \in 1..Len(s) : \A q \in 1..n : Expired(s[q], at)}
<1>1. Len(s) \in Nat
  BY LenProperties
<1>2. /\ IsFiniteSet(1..Len(s)) /\ Cardinality(1..Len(s)) = Len(s)
      /\ Old \in SUBSET (1..Len(s))
  <2>1. Old \in SUBSET (1..Len(s))
    OBVIOUS
  <2>2. \A L \in Nat : IsFiniteSet(1..L) /\ Cardinality(1..L) = L
    BY FS_Interval
  <2> HIDE DEF Old
  <2> QED BY <1>1, <2>1, <2>2
<1> HIDE DEF Old
<1>3. IsFiniteSet(Old) /\ Cardinality(Old) <= Len(s)
  BY <1>2, FS_Subset
<1>4. Cardinality(Old) \in Nat
  BY <1>3, FS_CardinalityType
<1> QED BY <1>1, <1>3, <1>4 DEF OldCount, Old

\* The running sum and count follow the window, whatever leaves it.
LEMMA PushKeepsSums ==
  ASSUME NEW o \in Operators, SumsOf(o), NEW x \in Samples
  PROVE  Push(o, x) \in Operators /\ SumsOf(Push(o, x)) /\ Push(o, x).open = o.open
<1> DEFINE all == Append(o.values, x)
           n == OldCount(all, x.t)
           kept == SubSeq(all, n + 1, Len(all))
           gone == SubSeq(all, 1, n)
           p == Push(o, x)
<1>1. /\ o.values \in Seq(Samples) /\ o.sum \in Int /\ o.count \in Int
      /\ o.open \in BOOLEAN /\ x.v \in Int
  BY ComputedSeriesAssumption DEF Operators, Samples
<1>2. /\ all \in Seq(Samples) /\ Len(all) = Len(o.values) + 1 /\ Len(o.values) \in Nat
  BY <1>1, AppendProperties, LenProperties
<1>3. Plain(all) = Plain(o.values) + x.v /\ Plain(o.values) \in Int
  BY <1>1, PlainAppend, PlainType
<1> HIDE DEF all
<1>4. n \in 0..Len(all)
  BY <1>2, OldCountRange
<1> HIDE DEF n
<1>5. /\ gone \in Seq(Samples) /\ kept \in Seq(Samples) /\ Len(kept) = Len(all) - n
      /\ Plain(all) = Plain(gone) + Plain(kept)
  BY <1>2, <1>4, PlainSplit
<1>6. Plain(gone) \in Int /\ Plain(kept) \in Int
  BY <1>5, PlainType
<1> HIDE DEF kept, gone
<1>7. p = [o EXCEPT !.values = kept, !.sum = @ + x.v - Plain(gone), !.count = @ + 1 - n]
  BY DEF Push, kept, gone, all, n
<1> HIDE DEF p
<1>8. /\ p.values = kept /\ p.sum = o.sum + x.v - Plain(gone)
      /\ p.count = o.count + 1 - n /\ p.open = o.open
      /\ p = [values |-> p.values, sum |-> p.sum, count |-> p.count, open |-> p.open]
  BY <1>7 DEF Operators
<1>9. p.sum = Plain(kept) /\ p.sum \in Int
  BY <1>1, <1>3, <1>5, <1>6, <1>8 DEF SumsOf
<1>10. p.count = Len(kept) /\ p.count \in Int
  BY <1>1, <1>2, <1>4, <1>5, <1>8 DEF SumsOf
<1>11. p \in Operators
  BY <1>1, <1>5, <1>8, <1>9, <1>10 DEF Operators
<1> QED BY <1>8, <1>9, <1>10, <1>11 DEF SumsOf, p

\* The weights of a window and what they make of it are numbers.
LEMMA WeightsType ==
  ASSUME NEW s \in Seq(Samples), NEW at \in Int
  PROVE  Weights(s, at) \in Int /\ Weighted(s, at) \in Int
<1> DEFINE a == [n \in DOMAIN s |-> Weight(s[n], at)]
           b == [n \in DOMAIN s |-> s[n].v * Weight(s[n], at)]
<1>1. Len(s) \in Nat /\ DOMAIN s = 1..Len(s) /\ \A n \in 1..Len(s) : s[n] \in Samples
  BY LenProperties, ElementOfSeq
<1>2. \A x \in Samples : x.v \in Int /\ Weight(x, at) \in Int
  BY SampleFacts DEF Weight
<1>3. \A x \in Samples : x.v * Weight(x, at) \in Int
  <2> HIDE DEF Weight
  <2>1. \A i, j \in Int : i * j \in Int
    OBVIOUS
  <2> QED BY <1>2, <2>1
<1>4. a \in Seq(Int) /\ b \in Seq(Int)
  <2>1. a \in [1..Len(s) -> Int] /\ b \in [1..Len(s) -> Int]
    BY <1>1, <1>2, <1>3
  <2>2. \A L \in Nat : [1..L -> Int] \subseteq Seq(Int)
    BY SeqDef
  <2> HIDE DEF a, b
  <2> QED BY <1>1, <2>1, <2>2
<1>5. \A q \in Seq(Int) : Total(q) \in Int
  <2> TAKE q \in Seq(Int)
  <2>1. Len(q) \in Nat /\ \E g \in [0..Len(q) -> Int] : g[Len(q)] = Total(q)
    BY TotalSteps, LenProperties
  <2> QED BY <2>1
<1> QED BY <1>4, <1>5 DEF Weights, Weighted

\* What has been processed: the operator and the results from a time on.
Dones(from) ==
  {d \in [op : Operators, out : SUBSET Results] :
     SumsOf(d.op) /\ \A r \in d.out : r.t >= from}

\* A sample adds one result at most, at its time.
LEMMA ComputeType ==
  ASSUME fcn \in Functions, NEW o \in Operators, NEW x \in Samples
  PROVE  /\ Compute(o, x).op \in Operators /\ Compute(o, x).out \subseteq Results
         /\ Compute(o, x).op.values = o.values
         /\ Compute(o, x).op.sum = o.sum /\ Compute(o, x).op.count = o.count
         /\ Compute(o, x).op.open = IF fcn.kind = "gate" THEN Opened(o, x) ELSE o.open
         /\ \A r \in Compute(o, x).out : r.t = x.t
<1>1. /\ o.values \in Seq(Samples) /\ o.sum \in Int /\ o.count \in Int
      /\ o.open \in BOOLEAN
  BY DEF Operators
<1>2. x.t \in 1..MaxSampleTime /\ x.t \in Int /\ x.v \in Int
  BY SampleFacts
<1>3. fcn.kind \in {"avg", "triangle", "gate"}
  BY ComputedSeriesAssumption
<1>4. Weights(o.values, x.t) \in Int /\ Weighted(o.values, x.t) \in Int
  BY <1>1, <1>2, WeightsType
<1>5. \A num, den \in Int :
        Result(x, num, den) \subseteq Results /\ \A r \in Result(x, num, den) : r.t = x.t
  BY <1>2 DEF Result, Results
<1>6. Opened(o, x) \in BOOLEAN
  BY <1>1 DEF Opened
<1>7. Compute(o, x).out \subseteq Results /\ \A r \in Compute(o, x).out : r.t = x.t
  <2>1. CASE fcn.kind = "avg"
    BY <1>1, <1>5, <2>1 DEF Compute, Average
  <2>2. CASE fcn.kind = "triangle"
    BY <1>4, <1>5, <2>2 DEF Compute, Triangle
  <2>3. CASE fcn.kind = "gate"
    BY <1>2, <1>5, <2>3 DEF Compute, Gate
  <2> QED BY <1>3, <2>1, <2>2, <2>3
<1> HIDE DEF Opened
<1>8. Compute(o, x).op = IF fcn.kind = "gate" THEN [o EXCEPT !.open = Opened(o, x)] ELSE o
  BY DEF Compute
<1>9. /\ Compute(o, x).op \in Operators
      /\ Compute(o, x).op.values = o.values
      /\ Compute(o, x).op.sum = o.sum /\ Compute(o, x).op.count = o.count
      /\ Compute(o, x).op.open = IF fcn.kind = "gate" THEN Opened(o, x) ELSE o.open
  BY <1>6, <1>8 DEF Operators
<1> QED BY <1>7, <1>9

\* The loop body of ProcessNewValues keeps the sums and the types.
LEMMA ProcessType ==
  ASSUME fcn \in Functions, NEW from \in Nat, NEW d \in Dones(from), NEW x \in Samples
  PROVE  Process(d, x, from) \in Dones(from)
<1> DEFINE p == Push(d.op, x)
           c == Compute(p, x)
<1>1. /\ d \in [op : Operators, out : SUBSET Results]
      /\ SumsOf(d.op) /\ \A r \in d.out : r.t >= from
  BY DEF Dones
<1>2. p \in Operators /\ SumsOf(p)
  BY <1>1, PushKeepsSums
<1> HIDE DEF p
<1>3. /\ c.op \in Operators /\ c.out \subseteq Results
      /\ c.op.values = p.values /\ c.op.sum = p.sum /\ c.op.count = p.count
      /\ \A r \in c.out : r.t = x.t
  BY <1>2, ComputeType
<1> HIDE DEF c
<1>4. Process(d, x, from) = IF x.t < from THEN [d EXCEPT !.op = p]
                            ELSE [op |-> c.op, out |-> d.out \cup c.out]
  BY DEF Process, p, c
<1>5. x.t \in Int
  BY ComputedSeriesAssumption DEF Samples
<1>6. CASE x.t < from
  BY <1>1, <1>2, <1>4, <1>6 DEF Dones
<1>7. CASE ~(x.t < from)
  <2>1. SumsOf(c.op)
    BY <1>2, <1>3 DEF SumsOf
  <2>2. \A r \in d.out \cup c.out : r.t >= from
    BY <1>1, <1>3, <1>5, <1>7
  <2> QED BY <1>1, <1>3, <1>4, <1>7, <2>1, <2>2 DEF Dones
<1> QED BY <1>6, <1>7

\* A batch is processed sample by sample.
LEMMA ProcessSteps ==
  ASSUME fcn \in Functions, NEW from \in Nat,
         NEW o \in Operators, SumsOf(o), NEW xs \in Seq(Samples)
  PROVE  \E g \in [0..Len(xs) -> Dones(from)] :
           /\ g[0] = [op |-> o, out |-> {}]
           /\ \A k \in 1..Len(xs) : g[k] = Process(g[k - 1], xs[k], from)
           /\ g[Len(xs)] = ProcessNewValues(o, xs, from)
<1> DEFINE n == Len(xs)
           D == Dones(from)
           zero == [op |-> o, out |-> {}]
           F == [p \in D \X (1..n) |-> Process(p[1], xs[p[2]], from)]
           Eq(f) == f = [t \in SUBSET (DOMAIN xs) |->
                           IF t = {} THEN zero
                           ELSE Process(f[t \ {Max(t)}], xs[Max(t)], from)]
           h == CHOOSE f : Eq(f)
<1>0. n \in Nat /\ DOMAIN xs = 1..n /\ \A k \in 1..n : xs[k] \in Samples
  BY LenProperties, ElementOfSeq
<1>z. zero \in D
  BY DEF Dones
<1> HIDE DEF D, zero
<1>s. \A d \in D, k \in 1..n : Process(d, xs[k], from) \in D
  BY <1>0, ProcessType DEF D
<1>1. F \in [D \X (1..n) -> D]
  BY <1>s
<1>2. PICK f \in [SUBSET (1..n) -> D] : Unfolds(f, n, zero, F)
  <2>1. n \in Nat /\ zero \in D /\ F \in [D \X (1..n) -> D]
    BY <1>0, <1>z, <1>1
  <2> HIDE DEF F, n, h, Eq
  <2> QED BY <2>1, FoldExists
<1>3. Eq(f)
  <2>1. ASSUME NEW t \in SUBSET (1..n), t # {}
        PROVE  F[<<f[t \ {Max(t)}], Max(t)>>] = Process(f[t \ {Max(t)}], xs[Max(t)], from)
    <3>1. Max(t) \in t
      <4>1. t \subseteq Nat /\ \A x \in t : x <= n
        BY <1>0
      <4> HIDE DEF n
      <4> QED BY <1>0, <2>1, <4>1, GreatestNumber
    <3> QED BY <3>1
  <2> QED BY <1>0, <1>2, <2>1 DEF Unfolds
<1>4. Eq(h)
  <2> HIDE DEF Eq
  <2> QED BY <1>3
<1>5. ProcessNewValues(o, xs, from) = h[DOMAIN xs]
  BY DEF ProcessNewValues, FoldLeft, MapThenFoldSet, zero
<1>6. /\ h[1..0] = zero
      /\ \A k \in 1..n : h[1..k] = Process(h[1..(k - 1)], xs[k], from)
  <2> HIDE DEF h
  <2>1. 1..0 = {}
    OBVIOUS
  <2>2. \A t \in SUBSET (1..n) :
          h[t] = IF t = {} THEN zero ELSE Process(h[t \ {Max(t)}], xs[Max(t)], from)
    BY <1>0, <1>4
  <2>3. ASSUME NEW k \in 1..n PROVE h[1..k] = Process(h[1..(k - 1)], xs[k], from)
    <3>1. /\ 1..k # {} /\ 1..k \in SUBSET (1..n)
          /\ Max(1..k) = k /\ (1..k) \ {k} = 1..(k - 1)
      <4> HIDE DEF n
      <4> QED BY <1>0, Prefix
    <3> QED BY <2>2, <3>1
  <2> HIDE DEF Eq
  <2> QED BY <2>1, <2>2, <2>3
<1>7. ASSUME NEW k \in 0..n PROVE h[1..k] \in D
  <2> DEFINE P == {j \in 0..n : h[1..j] \in D}
  <2> HIDE DEF h
  <2>1. 0 \in P
    BY <1>0, <1>6, <1>z
  <2>2. \A j \in 1..n : j - 1 \in P => j \in P
    BY <1>0, <1>6, <1>s
  <2>3. 0..n \subseteq P
    <3> HIDE DEF P, n
    <3> QED BY <1>0, <2>1, <2>2, UpTo
  <2> QED BY <2>3
<1> DEFINE g == [k \in 0..n |-> h[1..k]]
<1>8. /\ g \in [0..n -> D] /\ g[0] = zero
      /\ \A k \in 1..n : g[k] = Process(g[k - 1], xs[k], from)
      /\ g[n] = ProcessNewValues(o, xs, from)
  <2> HIDE DEF h
  <2> QED BY <1>0, <1>5, <1>6, <1>7
<1> QED BY <1>8 DEF D, zero

-----------------------------------------------------------------------------
(***************************************************************************)
(* Samples that come in order: windows and results.                        *)
(***************************************************************************)
\* Positions and times are in the same order.
LEMMA RisingFacts ==
  ASSUME NEW s \in Seq(Samples), Rising(s)
  PROVE  /\ Len(s) \in Nat
         /\ \A n \in 1..Len(s) : s[n] \in Samples /\ s[n].t \in Nat
         /\ \A n, m \in 1..Len(s) : n <= m <=> s[n].t <= s[m].t
<1>1. Len(s) \in Nat /\ \A n \in 1..Len(s) : s[n] \in Samples
  BY LenProperties, ElementOfSeq
<1>2. \A n \in 1..Len(s) : s[n].t \in Nat
  BY <1>1, SampleFacts
<1>3. ASSUME NEW n \in 1..Len(s), NEW m \in 1..Len(s) PROVE n <= m <=> s[n].t <= s[m].t
  <2>1. n < m => s[n].t < s[m].t
    BY DEF Rising
  <2>2. m < n => s[m].t < s[n].t
    BY DEF Rising
  <2> QED BY <1>1, <1>2, <2>1, <2>2
<1> QED BY <1>1, <1>2, <1>3

\* What is old is a prefix.
LEMMA OldCountIs ==
  ASSUME NEW s \in Seq(Samples), NEW at \in Int, NEW c \in 0..Len(s),
         \A q \in 1..Len(s) : q <= c <=> Expired(s[q], at)
  PROVE  OldCount(s, at) = c
<1> DEFINE Old == {n \in 1..Len(s) : \A q \in 1..n : Expired(s[q], at)}
<1>0. Len(s) \in Nat
  BY LenProperties
<1>1. Old = 1..c
  <2>1. ASSUME NEW n \in 1..c PROVE n \in Old
    <3>1. n \in 1..Len(s) /\ \A q \in 1..n : q \in 1..Len(s) /\ q <= c
      BY <1>0
    <3> QED BY <3>1
  <2>2. ASSUME NEW n \in Old PROVE n \in 1..c
    <3>1. n \in 1..Len(s) /\ Expired(s[n], at)
      BY <1>0
    <3> QED BY <1>0, <3>1
  <2> QED BY <2>1, <2>2
<1>2. Cardinality(1..c) = c
  <2>1. c \in Nat
    BY <1>0
  <2> HIDE DEF Old
  <2> QED BY <2>1, FS_Interval
<1> QED BY <1>1, <1>2 DEF OldCount

\* A window after the next sample.
LEMMA WindowStep ==
  ASSUME NEW s \in Seq(Samples), Rising(s),
         NEW k \in 0..(Len(s) - 1),
         NEW o \in Operators, Windowed(o.values, s, k)
  PROVE  Windowed(Push(o, s[k + 1]).values, s, k + 1)
<1> DEFINE x == s[k + 1]
           all == Append(o.values, x)
<1>0. /\ Len(s) \in Nat /\ k + 1 \in 1..Len(s) /\ k \in 0..Len(s) /\ k \in Int
      /\ \A n \in 1..Len(s) : s[n] \in Samples /\ s[n].t \in Nat
      /\ \A n, m \in 1..Len(s) : n <= m <=> s[n].t <= s[m].t
  <2>1. Len(s) \in Nat
    BY RisingFacts
  <2>2. k + 1 \in 1..Len(s) /\ k \in 0..Len(s) /\ k \in Int
    BY <2>1
  <2> QED BY <2>1, <2>2, RisingFacts
<1>1. PICK b \in 1..(k + 1) :
        /\ o.values = SubSeq(s, b, k)
        /\ \A n \in 1..k : n < b <=> Expired(s[n], s[k].t)
  BY DEF Windowed
<1>2. all = SubSeq(s, b, k + 1) /\ Len(all) = k + 2 - b /\ all \in Seq(Samples)
      /\ \A i \in 1..(k + 2 - b) : all[i] = s[b + i - 1]
  <2>1. /\ Len(SubSeq(s, b, k)) = k + 1 - b /\ SubSeq(s, b, k) \in Seq(Samples)
        /\ \A i \in 1..(k + 1 - b) : SubSeq(s, b, k)[i] = s[b + i - 1]
    BY <1>0, SubSeqProperties
  <2>2. /\ Len(SubSeq(s, b, k + 1)) = k + 2 - b /\ SubSeq(s, b, k + 1) \in Seq(Samples)
        /\ \A i \in 1..(k + 2 - b) : SubSeq(s, b, k + 1)[i] = s[b + i - 1]
    BY <1>0, SubSeqProperties
  <2> DEFINE v == SubSeq(s, b, k)
             w == SubSeq(s, b, k + 1)
  <2> HIDE DEF v, w
  <2>3. /\ Len(Append(v, x)) = k + 2 - b /\ Append(v, x) \in Seq(Samples)
        /\ \A i \in 1..(k + 1 - b) : Append(v, x)[i] = v[i]
        /\ Append(v, x)[k + 2 - b] = x
    <3>1. Len(v) + 1 = k + 2 - b /\ Len(v) = k + 1 - b
      BY <1>0, <2>1 DEF v
    <3>2. v \in Seq(Samples) /\ x \in Samples
      BY <1>0, <2>1 DEF v
    <3> HIDE DEF x
    <3> QED BY <3>1, <3>2, AppendProperties
  <2>4. \A i \in 1..(k + 2 - b) : Append(v, x)[i] = w[i]
    <3> TAKE i \in 1..(k + 2 - b)
    <3>1. CASE i = k + 2 - b
      <4>1. b + i - 1 = k + 1
        BY <1>0, <3>1
      <4> QED BY <2>2, <2>3, <3>1, <4>1 DEF w
    <3>2. CASE i # k + 2 - b
      <4>1. i \in 1..(k + 1 - b)
        BY <1>0, <3>2
      <4> QED BY <2>1, <2>2, <2>3, <4>1 DEF v, w
    <3> QED BY <3>1, <3>2
  <2>5. Append(v, x) = w
    <3>1. w \in Seq(Samples) /\ Len(w) = k + 2 - b
      BY <2>2 DEF w
    <3> HIDE DEF x
    <3> QED BY <2>3, <2>4, <3>1, SeqEqual
  <2> QED BY <1>1, <2>2, <2>5 DEF v, w
<1> HIDE DEF all
<1> DEFINE Fresh0 == {n \in b..(k + 1) : ~Expired(s[n], x.t)}
<1>3. PICK c \in Fresh0 : \A n \in Fresh0 : c <= n
  <2>1. k + 1 \in Fresh0
    BY <1>0, SampleFacts DEF Expired
  <2>2. Fresh0 \subseteq Nat
    BY <1>0
  <2> HIDE DEF Fresh0
  <2> QED BY <2>1, <2>2, LeastNumber
<1>4. c \in b..(k + 1) /\ ~Expired(s[c], x.t)
  BY <1>3
<1>5. \A n \in b..(k + 1) : n < c <=> Expired(s[n], x.t)
  <2> TAKE n \in b..(k + 1)
  <2>1. n < c => Expired(s[n], x.t)
    BY <1>0, <1>3
  <2>2. c <= n => ~Expired(s[n], x.t)
    <3> HAVE c <= n
    <3>1. c \in 1..Len(s) /\ n \in 1..Len(s)
      BY <1>0, <1>4
    <3>2. s[c].t <= s[n].t /\ s[c].t \in Nat /\ s[n].t \in Nat
      BY <1>0, <3>1
    <3>3. x.t \in Nat /\ ~(s[c].t < x.t - Duration) /\ Duration \in Nat
      BY <1>0, <1>4, SampleFacts DEF Expired
    <3>4. ~(s[n].t < x.t - Duration)
      <4> DEFINE xt == x.t
                 ct == s[c].t
                 nt == s[n].t
      <4>1. xt \in Nat /\ ct \in Nat /\ nt \in Nat /\ Duration \in Nat
            /\ ct <= nt /\ ~(ct < xt - Duration)
        BY <3>2, <3>3
      <4> HIDE DEF xt, ct, nt
      <4>2. ~(nt < xt - Duration)
        BY <4>1
      <4> QED BY <4>2 DEF xt, nt
    <3> QED BY <3>4 DEF Expired
  <2> QED BY <1>0, <1>4, <2>1, <2>2
<1> HIDE DEF Fresh0
<1>6. OldCount(all, x.t) = c - b
  <2>1. c - b \in 0..Len(all)
    <3>1. Len(all) = k + 2 - b
      BY <1>2
    <3> QED BY <1>0, <1>4, <3>1
  <2>1a. x.t \in Int
    BY <1>0
  <2>2. \A q \in 1..Len(all) : q <= c - b <=> Expired(all[q], x.t)
    <3> TAKE q \in 1..Len(all)
    <3>1. q \in 1..(k + 2 - b)
      BY <1>2
    <3>2. b + q - 1 \in b..(k + 1) /\ (q <= c - b <=> b + q - 1 < c)
      BY <1>0, <1>4, <3>1
    <3>3. all[q] = s[b + q - 1]
      BY <1>2, <3>1
    <3> QED BY <1>5, <3>2, <3>3
  <2> HIDE DEF x
  <2> QED BY <1>2, <2>1, <2>1a, <2>2, OldCountIs
<1>7. SubSeq(all, c - b + 1, Len(all)) = SubSeq(s, c, k + 1)
  <2> DEFINE v == SubSeq(all, c - b + 1, Len(all))
             w == SubSeq(s, c, k + 1)
             m == k + 2 - c
  <2>1. /\ Len(v) = m /\ v \in Seq(Samples)
        /\ \A i \in 1..m : v[i] = all[(c - b + 1) + i - 1]
    <3>0. Len(all) = k + 2 - b
      BY <1>2
    <3>1. /\ c - b + 1 \in 1..(Len(all) + 1) /\ Len(all) \in Nat
          /\ Len(all) - (c - b + 1) + 1 = m /\ m \in Nat
      <4>1. b \in Nat /\ c \in Nat /\ b >= 1 /\ c >= b /\ c <= k + 1
        BY <1>0, <1>4
      <4> DEFINE L == Len(all)
      <4>2. L = k + 2 - b
        BY <3>0
      <4> HIDE DEF L
      <4>3. /\ c - b + 1 \in 1..(L + 1) /\ L \in Nat
            /\ L - (c - b + 1) + 1 = m /\ m \in Nat
        BY <1>0, <4>1, <4>2
      <4> QED BY <4>3 DEF L
    <3>2. /\ v \in Seq(Samples)
          /\ Len(v) = IF c - b + 1 <= Len(all) THEN Len(all) - (c - b + 1) + 1 ELSE 0
          /\ \A i \in 1..(Len(all) - (c - b + 1) + 1) : v[i] = all[(c - b + 1) + i - 1]
      <4>1. \A i \in (c - b + 1)..Len(all) : i \in 1..Len(all)
        BY <3>1
      <4>2. \A i \in (c - b + 1)..Len(all) : all[i] \in Samples
        BY <1>2, <4>1, ElementOfSeq
      <4> DEFINE i0 == c - b + 1
                 i1 == Len(all)
      <4>3. i0 \in Int /\ i1 \in Int /\ \A i \in i0..i1 : all[i] \in Samples
        BY <3>1, <4>2
      <4> HIDE DEF i0, i1
      <4>4. /\ SubSeq(all, i0, i1) \in Seq(Samples)
            /\ Len(SubSeq(all, i0, i1)) = IF i0 <= i1 THEN i1 - i0 + 1 ELSE 0
            /\ \A i \in 1..(i1 - i0 + 1) : SubSeq(all, i0, i1)[i] = all[i0 + i - 1]
        BY <4>3, SubSeqProperties
      <4> QED BY <4>4 DEF i0, i1
    <3>3. (IF c - b + 1 <= Len(all) THEN Len(all) - (c - b + 1) + 1 ELSE 0) = m
      BY <3>1
    <3> HIDE DEF m, v
    <3> QED BY <3>1, <3>2, <3>3
  <2>2. /\ Len(w) = m /\ w \in Seq(Samples)
        /\ \A i \in 1..m : w[i] = s[c + i - 1]
    BY <1>0, <1>4, SubSeqProperties
  <2> HIDE DEF v, w
  <2>3. \A i \in 1..m : v[i] = w[i]
    <3> TAKE i \in 1..m
    <3>1. /\ (c - b + 1) + i - 1 \in 1..(k + 2 - b)
          /\ b + ((c - b + 1) + i - 1) - 1 = c + i - 1
      <4>1. /\ b \in Nat /\ c \in Nat /\ k \in Int /\ i \in Nat
            /\ b <= c /\ 1 <= i /\ i <= k + 2 - c
        BY <1>0, <1>4
      <4>2. /\ (c - b + 1) + i - 1 = c - b + i /\ 1 <= c - b + i
            /\ c - b + i <= k + 2 - b
        BY <4>1
      <4> QED BY <4>1, <4>2
    <3> QED BY <1>2, <2>1, <2>2, <3>1
  <2>4. v = w
    BY <2>1, <2>2, <2>3, SeqEqual
  <2> QED BY <2>4 DEF v, w
<1>8. Push(o, x).values = SubSeq(s, c, k + 1)
  <2>1. Push(o, x) = [o EXCEPT
          !.values = SubSeq(all, c - b + 1, Len(all)),
          !.sum    = @ + x.v - Plain(SubSeq(all, 1, c - b)),
          !.count  = @ + 1 - (c - b)]
    BY <1>6 DEF Push, all
  <2>2. Push(o, x).values = SubSeq(all, c - b + 1, Len(all))
    BY <2>1 DEF Operators
  <2> QED BY <1>7, <2>2
<1>9. \A n \in 1..(k + 1) : n < c <=> Expired(s[n], x.t)
  <2> TAKE n \in 1..(k + 1)
  <2>1. CASE n \in b..(k + 1)
    BY <1>5, <2>1
  <2>2. CASE n \notin b..(k + 1)
    <3>1. n \in 1..k /\ n < b /\ n < c /\ n \in 1..Len(s) /\ k \in 1..Len(s) /\ k <= k + 1
      BY <1>0, <1>4, <2>2
    <3>2. Expired(s[n], s[k].t)
      BY <1>1, <3>1
    <3>3. s[k].t <= x.t /\ s[k].t \in Nat /\ x.t \in Nat /\ s[n].t \in Nat
      BY <1>0, <3>1
    <3>4. Expired(s[n], x.t)
      <4>1. s[n].t < s[k].t - Duration /\ Duration \in Nat
        BY <3>2, SampleFacts DEF Expired
      <4>2. s[n].t < x.t - Duration
        <5> HIDE DEF x
        <5> QED BY <3>3, <4>1
      <4> QED BY <4>2 DEF Expired
    <3> QED BY <3>1, <3>4
  <2> QED BY <2>1, <2>2
<1>10. c \in 1..((k + 1) + 1)
  BY <1>0, <1>4
<1> QED BY <1>8, <1>9, <1>10 DEF Windowed

\* The window is the last Duration of the samples.
LEMMA WindowIsUntil ==
  ASSUME NEW s \in Seq(Samples), Rising(s),
         NEW k \in 1..Len(s), NEW values, Windowed(values, s, k)
  PROVE  /\ values = Until(s, s[k])
         /\ values \in Seq(Samples) /\ Len(values) > 0 /\ values[Len(values)] = s[k]
         /\ \A i \in 1..Len(values) : ~Expired(values[i], s[k].t)
<1>0. /\ Len(s) \in Nat /\ k \in 1..Len(s)
      /\ \A n \in 1..Len(s) : s[n] \in Samples /\ s[n].t \in Nat
      /\ \A n, m \in 1..Len(s) : n <= m <=> s[n].t <= s[m].t
  <2>1. Len(s) \in Nat
    BY RisingFacts
  <2>2. k \in 1..Len(s)
    BY <2>1
  <2> QED BY <2>1, <2>2, RisingFacts
<1>1. PICK b \in 1..(k + 1) :
        /\ values = SubSeq(s, b, k)
        /\ \A n \in 1..k : n < b <=> Expired(s[n], s[k].t)
  BY DEF Windowed
<1>2. b <= k
  <2>1. ~Expired(s[k], s[k].t)
    BY <1>0, SampleFacts DEF Expired
  <2> QED BY <1>0, <1>1, <2>1
<1>3. \A n \in 1..Len(s) : s[n].t \in (s[k].t - Duration)..(s[k].t) <=> n \in b..k
  <2> TAKE n \in 1..Len(s)
  <2>1. s[n].t \in Nat /\ s[k].t \in Nat /\ (n <= k <=> s[n].t <= s[k].t)
    BY <1>0
  <2>2. s[n].t \in (s[k].t - Duration)..(s[k].t) <=> n <= k /\ ~Expired(s[n], s[k].t)
    BY <2>1, SampleFacts DEF Expired
  <2>3. n \in b..k => n \in 1..k /\ n <= k /\ ~(n < b)
    BY <1>0
  <2>4. n <= k => n \in 1..k
    BY <1>0
  <2>5. n \in 1..k /\ ~(n < b) => n \in b..k
    BY <1>0
  <2> QED BY <1>1, <2>2, <2>3, <2>4, <2>5
<1>4. {y \in Rows(s) : y.t \in (s[k].t - Duration)..(s[k].t)} = {s[n] : n \in b..k}
  <2>1. Rows(s) = {s[n] : n \in 1..Len(s)}
    BY RowsAre
  <2>2. b..k \subseteq 1..Len(s)
    BY <1>0
  <2> QED BY <1>3, <2>1, <2>2
<1>5. Until(s, s[k]) = SubSeq(s, b, k)
  <2>1. k \in 0..Len(s) /\ b \in 1..(k + 1)
    BY <1>0
  <2> QED BY <1>4, <2>1, ByTimePart DEF Until
<1>6. /\ Len(values) = k - b + 1 /\ values \in Seq(Samples)
      /\ \A i \in 1..(k - b + 1) : values[i] = s[b + i - 1]
  BY <1>0, <1>1, SubSeqProperties
<1>7. Len(values) > 0 /\ values[Len(values)] = s[k]
  <2>1. k - b + 1 \in 1..(k - b + 1) /\ b + (k - b + 1) - 1 = k
    BY <1>0, <1>2
  <2> QED BY <1>6, <2>1
<1>8. \A i \in 1..Len(values) : ~Expired(values[i], s[k].t)
  <2> TAKE i \in 1..Len(values)
  <2>1. b + i - 1 \in 1..k /\ ~(b + i - 1 < b) /\ values[i] = s[b + i - 1]
    BY <1>0, <1>6
  <2> QED BY <1>1, <2>1
<1> QED BY <1>1, <1>5, <1>6, <1>7, <1>8

\* The weights of a window are positive.
LEMMA WeightsPositive ==
  ASSUME NEW s \in Seq(Samples), Len(s) > 0,
         \A i \in 1..Len(s) : ~Expired(s[i], s[Len(s)].t)
  PROVE  Weights(s, s[Len(s)].t) > 0
<1> DEFINE at == s[Len(s)].t
           a == [n \in DOMAIN s |-> Weight(s[n], at)]
<1>1. /\ Len(s) \in Nat /\ Len(s) \in 1..Len(s) /\ DOMAIN s = 1..Len(s)
      /\ \A n \in 1..Len(s) : s[n].t \in Nat
  <2>1. Len(s) \in Nat /\ DOMAIN s = 1..Len(s) /\ \A n \in 1..Len(s) : s[n] \in Samples
    BY LenProperties, ElementOfSeq
  <2>2. Len(s) \in 1..Len(s)
    BY <2>1
  <2> QED BY <2>1, <2>2, SampleFacts
<1>2. at \in Nat
  BY <1>1
<1>3. \A n \in 1..Len(s) : a[n] \in Int /\ a[n] >= 0
  <2> TAKE n \in 1..Len(s)
  <2>1. a[n] = s[n].t - (at - Duration)
    BY <1>1 DEF Weight
  <2>2. ~(s[n].t < at - Duration) /\ s[n].t \in Nat
    BY <1>1 DEF Expired
  <2> HIDE DEF at, a
  <2> QED BY <1>2, <2>1, <2>2, SampleFacts
<1>4. a[Len(s)] > 0
  <2>1. a[Len(s)] = at - (at - Duration)
    BY <1>1 DEF Weight
  <2> HIDE DEF at, a
  <2> QED BY <1>2, <2>1, SampleFacts
<1>5. a \in Seq(Int) /\ Len(a) = Len(s)
  <2>1. a \in [1..Len(s) -> Int]
    BY <1>1, <1>3
  <2>2. \A L \in Nat : [1..L -> Int] \subseteq Seq(Int)
    BY SeqDef
  <2> HIDE DEF a, at
  <2> QED BY <1>1, <2>1, <2>2, LenProperties
<1>6. Total(a) > 0
  <2> HIDE DEF a, at
  <2> QED BY <1>3, <1>4, <1>5, TotalPositive
<1> QED BY <1>6 DEF Weights

\* The result of a wanted sample is what the samples until then give.
LEMMA ResultIsExpected ==
  ASSUME fcn \in Functions, NEW from \in Nat,
         NEW s \in Seq(Samples), Rising(s), NEW k \in 0..(Len(s) - 1),
         NEW o \in Operators, SumsOf(o), Windowed(o.values, s, k),
         fcn.kind = "gate" => (o.open <=> OpenedSince(s, from, k)),
         s[k + 1].t >= from
  PROVE  Compute(Push(o, s[k + 1]), s[k + 1]).out = Expected(s, from, s[k + 1])
<1> DEFINE x == s[k + 1]
           p == Push(o, x)
<1>0. Len(s) \in Nat /\ k \in Int /\ k + 1 \in 1..Len(s)
  <2>1. Len(s) \in Nat
    BY LenProperties
  <2> QED BY <2>1
<1>1. /\ \A n \in 1..Len(s) : s[n] \in Samples /\ s[n].t \in Nat
      /\ \A n, m \in 1..Len(s) : n <= m <=> s[n].t <= s[m].t
  BY RisingFacts
<1>2. x \in Samples /\ x.t \in Nat /\ x.v \in Int
  BY <1>0, <1>1, SampleFacts
<1>3. p \in Operators /\ SumsOf(p) /\ p.open = o.open
  BY <1>2, PushKeepsSums
<1>4. Windowed(p.values, s, k + 1)
  BY <1>0, WindowStep
<1> DEFINE u == Until(s, x)
<1>6. /\ p.values = u /\ u \in Seq(Samples) /\ Len(u) > 0 /\ u[Len(u)] = x
      /\ \A i \in 1..Len(u) : ~Expired(u[i], x.t)
  <2> HIDE DEF p
  <2> QED BY <1>0, <1>4, WindowIsUntil
<1> HIDE DEF p, u, x
<1>7. CASE fcn.kind = "avg"
  <2>1. p.count = Len(u) /\ p.sum = Plain(u) /\ Len(u) \in Nat
    BY <1>3, <1>6, LenProperties DEF SumsOf
  <2>2. Compute(p, x).out = Average(p, x)
    BY <1>7 DEF Compute
  <2>3. Average(p, x) = Result(x, Plain(u), Len(u))
    BY <1>6, <2>1 DEF Average
  <2> QED BY <1>7, <2>2, <2>3 DEF Expected, u, p, x
<1>8. CASE fcn.kind = "triangle"
  <2>1. Weights(u, x.t) > 0 /\ Weights(u, x.t) \in Int
    <3>1. Weights(u, u[Len(u)].t) > 0
      BY <1>6, WeightsPositive
    <3>2. Weights(u, x.t) \in Int
      <4>1. x.t \in Int
        BY <1>2
      <4>2. u \in Seq(Samples)
        BY <1>6
      <4> QED BY <4>1, <4>2, WeightsType
    <3> QED BY <1>6, <3>1, <3>2
  <2>2. Compute(p, x).out = Triangle(p, x)
    BY <1>8 DEF Compute
  <2>3. Triangle(p, x) = Result(x, Weighted(u, x.t), Weights(u, x.t))
    BY <1>6, <2>1 DEF Triangle
  <2> QED BY <1>8, <2>2, <2>3 DEF Expected, u, p, x
<1>9. CASE fcn.kind = "gate"
  <2>1. Opened(p, x) <=> Opens(s, from, x)
    <3>1. x.t >= from
      BY DEF x
    <3>2. ASSUME Opens(s, from, x) PROVE Opened(p, x)
      <4>1. PICK n \in 1..Len(s) : s[n].t \in from..x.t /\ s[n].v > Target
        BY <3>2 DEF Opens
      <4>2. n <= k + 1
        BY <1>0, <1>1, <4>1 DEF x
      <4>4. CASE n = k + 1
        BY <4>1, <4>4 DEF Opened, x
      <4>5. CASE n # k + 1
        <5>1. n \in 1..k
          BY <1>0, <4>2, <4>5
        <5>2. OpenedSince(s, from, k)
          BY <1>1, <4>1, <5>1 DEF OpenedSince
        <5> QED BY <1>3, <1>9, <5>2 DEF Opened
      <4> QED BY <4>4, <4>5
    <3>3. ASSUME Opened(p, x) PROVE Opens(s, from, x)
      <4>1. CASE x.v > Target
        BY <1>0, <1>2, <3>1, <4>1 DEF Opens, x
      <4>2. CASE p.open
        <5>1. PICK n \in 1..k : s[n].t >= from /\ s[n].v > Target
          BY <1>3, <1>9, <4>2 DEF OpenedSince
        <5>2. n \in 1..Len(s) /\ n <= k + 1
          BY <1>0
        <5>3. s[n].t \in from..x.t
          BY <1>0, <1>1, <5>1, <5>2 DEF x
        <5> QED BY <5>1, <5>2, <5>3 DEF Opens
      <4> QED BY <3>3, <4>1, <4>2 DEF Opened
    <3> QED BY <3>2, <3>3
  <2>2. Compute(p, x).out = Gate(p, x)
    BY <1>9 DEF Compute
  <2>3. Gate(p, x) = IF Opens(s, from, x) THEN Result(x, x.v, 1) ELSE {}
    BY <2>1 DEF Gate
  <2> QED BY <1>9, <2>2, <2>3 DEF Expected, p, x
<1>10. fcn.kind \in {"avg", "triangle", "gate"}
  BY ComputedSeriesAssumption
<1> QED BY <1>7, <1>8, <1>9, <1>10 DEF p, x

\* One more sample.
LEMMA ProcessedStep ==
  ASSUME fcn \in Functions, NEW from \in Nat,
         NEW s \in Seq(Samples), Rising(s), NEW k \in 0..(Len(s) - 1),
         NEW d \in Dones(from), Processed(d, s, from, k)
  PROVE  Processed(Process(d, s[k + 1], from), s, from, k + 1)
<1> DEFINE x == s[k + 1]
           p == Push(d.op, x)
           c == Compute(p, x)
           e == Process(d, x, from)
           Old == {q \in 1..k : s[q].t >= from}
           New == {q \in 1..(k + 1) : s[q].t >= from}
<1>0. /\ Len(s) \in Nat /\ k \in Int /\ k + 1 \in 1..Len(s)
      /\ k + 1 \in 1..(k + 1) /\ \A n \in 1..(k + 1) : n = k + 1 \/ n \in 1..k
      /\ 1..k \subseteq 1..(k + 1)
  <2>1. Len(s) \in Nat
    BY LenProperties
  <2> QED BY <2>1
<1>1. x \in Samples /\ x.t \in Nat
  BY <1>0, RisingFacts
<1>2. /\ d \in [op : Operators, out : SUBSET Results]
      /\ d.op \in Operators /\ SumsOf(d.op)
      /\ Windowed(d.op.values, s, k)
      /\ fcn.kind = "gate" => (d.op.open <=> OpenedSince(s, from, k))
      /\ d.out = UNION {Expected(s, from, s[n]) : n \in Old}
  BY DEF Dones, Processed
<1>3. p \in Operators /\ p.open = d.op.open
  BY <1>1, <1>2, PushKeepsSums
<1>4. Windowed(p.values, s, k + 1)
  BY <1>0, <1>2, WindowStep
<1>5. /\ c.op.values = p.values
      /\ fcn.kind = "gate" => c.op.open = Opened(p, x)
      /\ \A r \in c.out : r.t = x.t
  <2> HIDE DEF p, x
  <2> QED BY <1>1, <1>3, ComputeType
<1>6. x.t >= from => c.out = Expected(s, from, x)
  BY <1>2, ResultIsExpected
<1>8. New = IF x.t >= from THEN Old \cup {k + 1} ELSE Old
  BY <1>0
<1>9. e = IF x.t < from THEN [d EXCEPT !.op = p]
          ELSE [op |-> c.op, out |-> d.out \cup c.out]
  BY DEF Process
<1> HIDE DEF p, c, e, Old, New
<1>10. CASE x.t < from
  <2>1. e.op = p /\ e.out = d.out
    BY <1>2, <1>9, <1>10
  <2>2. New = Old
    BY <1>1, <1>8, <1>10
  <2>3. OpenedSince(s, from, k + 1) <=> OpenedSince(s, from, k)
    <3>1. ~(s[k + 1].t >= from)
      BY <1>1, <1>10
    <3> QED BY <1>0, <3>1 DEF OpenedSince
  <2> QED BY <1>2, <1>3, <1>4, <2>1, <2>2, <2>3 DEF Processed, New, e
<1>11. CASE ~(x.t < from)
  <2>1. e.op = c.op /\ e.out = d.out \cup c.out
    BY <1>9, <1>11
  <2>2. fcn.kind = "gate" => (c.op.open <=> OpenedSince(s, from, k + 1))
    <3>1. OpenedSince(s, from, k + 1) <=> OpenedSince(s, from, k) \/ x.v > Target
      BY <1>0, <1>1, <1>11 DEF OpenedSince
    <3> QED BY <1>2, <1>3, <1>5, <3>1 DEF Opened
  <2>3. e.out = UNION {Expected(s, from, s[n]) : n \in New}
    <3>1. c.out = Expected(s, from, s[k + 1]) /\ New = Old \cup {k + 1}
      <4>1. x.t >= from
        BY <1>1, <1>11
      <4> QED BY <1>6, <1>8, <4>1
    <3> HIDE DEF x
    <3> QED BY <1>2, <2>1, <3>1
  <2> QED BY <1>4, <1>5, <2>1, <2>2, <2>3 DEF Processed, New, e
<1> QED BY <1>10, <1>11 DEF e

-----------------------------------------------------------------------------
(***************************************************************************)
(* Connecting.                                                             *)
(***************************************************************************)
\* A new operator.
LEMMA FreshFacts ==
  Fresh \in Operators /\ SumsOf(Fresh) /\ Fresh.values = <<>> /\ Fresh.open = FALSE
<1>1. <<>> \in Seq(Samples) /\ Len(<<>>) = 0
  BY EmptySeq
<1>2. Plain(<<>>) = 0
  <2> DEFINE e == Numbers(<<>>)
             h == [i \in {0} |-> 0]
  <2>1. e \in Seq(Int) /\ Len(e) = 0 /\ Plain(<<>>) = Total(e)
    BY <1>1, NumbersAre
  <2> HIDE DEF e
  <2>2. h[0] = 0 /\ \A i \in 1..Len(e) : h[i] = h[i - 1] + e[i]
    BY <2>1
  <2> HIDE DEF h
  <2>3. Total(e) = h[Len(e)]
    BY <2>1, <2>2, TotalIs
  <2> QED BY <2>1, <2>2, <2>3
<1>3. Fresh \in Operators
  BY <1>1 DEF Fresh, Operators
<1>4. Fresh.values = <<>> /\ Fresh.open = FALSE /\ Fresh.sum = 0 /\ Fresh.count = 0
  BY DEF Fresh
<1> QED BY <1>1, <1>2, <1>3, <1>4 DEF SumsOf

\* The rows that a connection loads.
Loaded(from) ==
  {x \in Rows(log) : IF date # NoDate THEN x.t \in date.first..date.last
                    ELSE x.t >= from - Lookback}

\* They come in the order of their times.
LEMMA LoadIs ==
  ASSUME log \in Seq(Samples), NEW from
  PROVE  /\ Load(from) \in Seq(Samples) /\ Rising(Load(from))
         /\ Rows(Load(from)) = Loaded(from)
<1> DEFINE S == Loaded(from)
           w == Load(from)
           n == Cardinality(S)
<1>1. w = ByTime(S)
  <2>1. CASE date # NoDate
    BY <2>1 DEF Load, LoadDate, Loaded
  <2>2. CASE date = NoDate
    BY <2>2 DEF Load, LoadDataWindow, Loaded
  <2> QED BY <2>1, <2>2
<1>2. S \subseteq Samples /\ IsFiniteSet(S) /\ Distinct(S)
  <2>1. S \in SUBSET Rows(log)
    BY DEF Loaded
  <2> HIDE DEF S
  <2> QED BY <2>1, SomeRows
<1> HIDE DEF S, w
<1>3. /\ n \in Nat /\ w \in [1..n -> S] /\ Sorted(w, n)
      /\ \A x \in S : \E i \in 1..n : w[i] = x
      /\ w \in Seq(Samples)
  BY <1>1, <1>2, ByTimeIs
<1>4. Len(w) = n
  <2>1. DOMAIN w = 1..n /\ DOMAIN w = 1..Len(w) /\ Len(w) \in Nat
    BY <1>3, LenProperties
  <2> HIDE DEF n
  <2> QED BY <1>3, <2>1
<1>5. Rising(w)
  BY <1>3, <1>4 DEF Sorted, Rising
<1>6. Rows(w) = {w[i] : i \in 1..n}
  BY <1>3, <1>4, <1>5, RowsAre
<1>7. Rows(w) = S
  BY <1>3, <1>6
<1> QED BY <1>3, <1>5, <1>7 DEF w, S

\* What a new connection makes of them.
LEMMA ConnectProcesses ==
  ASSUME fcn \in Functions, log \in Seq(Samples), NEW from \in Nat, NEW d,
         d = ProcessNewValues(Fresh, Load(from), from)
  PROVE  d \in Dones(from) /\ Processed(d, Load(from), from, Len(Load(from)))
<1> DEFINE xs == Load(from)
           L == Len(xs)
<1>1. xs \in Seq(Samples) /\ Rising(xs) /\ L \in Nat
  BY LoadIs, LenProperties
<1>2. PICK g \in [0..L -> Dones(from)] :
        /\ g[0] = [op |-> Fresh, out |-> {}]
        /\ \A j \in 1..L : g[j] = Process(g[j - 1], xs[j], from)
        /\ g[L] = d
  <2> HIDE DEF xs
  <2>1. d = ProcessNewValues(Fresh, xs, from)
    BY DEF xs
  <2> QED BY <1>1, <2>1, FreshFacts, ProcessSteps
<1> HIDE DEF xs
<1> DEFINE P == {j \in 0..L : Processed(g[j], xs, from, j)}
<1>3. 0 \in P
  <2>1. Windowed(<<>>, xs, 0)
    <3>1. 1 \in 1..(0 + 1) /\ 1..0 = {} /\ SubSeq(xs, 1, 0) = <<>>
      BY SubSeqEmpty
    <3> QED BY <3>1 DEF Windowed
  <2>2. ~OpenedSince(xs, from, 0) /\ {q \in 1..0 : xs[q].t >= from} = {}
    BY DEF OpenedSince
  <2>3. g[0].op.values = <<>> /\ g[0].op.open = FALSE /\ g[0].out = {}
    BY <1>2, FreshFacts
  <2>4. Processed(g[0], xs, from, 0)
    BY <2>1, <2>2, <2>3 DEF Processed
  <2> QED BY <1>1, <2>4
<1>4. \A j \in 1..L : j - 1 \in P => j \in P
  <2> SUFFICES ASSUME NEW j \in 1..L, j - 1 \in P PROVE j \in P
    OBVIOUS
  <2> DEFINE k == j - 1
  <2>1. k \in 0..(L - 1) /\ k \in 0..L /\ k + 1 = j /\ j \in 0..L
    BY <1>1
  <2>2. Processed(g[k], xs, from, k) /\ g[k] \in Dones(from)
    BY <1>2, <2>1
  <2>3. g[j] = Process(g[k], xs[k + 1], from)
    BY <1>2, <2>1
  <2> HIDE DEF k, P
  <2>4. Processed(g[j], xs, from, k + 1)
    BY <1>1, <2>1, <2>2, <2>3, ProcessedStep
  <2> QED BY <2>1, <2>4 DEF P
<1>5. 0..L \subseteq P
  <2> HIDE DEF P, L
  <2> QED BY <1>1, <1>3, <1>4, UpTo
<1>6. Processed(d, xs, from, L) /\ d \in Dones(from)
  <2>1. L \in 0..L
    BY <1>1
  <2> QED BY <1>2, <1>5, <2>1
<1> QED BY <1>6 DEF xs

-----------------------------------------------------------------------------
(***************************************************************************)
(* A sample.                                                               *)
(***************************************************************************)
\* A later sample is a row of its own.
LEMMA LaterRow ==
  ASSUME NEW s \in Seq(Samples), NEW x \in Samples, Rising(Append(s, x))
  PROVE  Rising(s) /\ Rows(Append(s, x)) = Rows(s) \cup {x}
<1> DEFINE a == Append(s, x)
           L == Len(s)
<1>0. L \in Nat
  BY LenProperties
<1>1. /\ a \in Seq(Samples) /\ Len(a) = L + 1 /\ a[L + 1] = x
      /\ \A n \in 1..L : a[n] = s[n]
  BY AppendProperties, LenProperties
<1>2. Rising(a)
  OBVIOUS
<1> HIDE DEF a
<1>3. Rising(s)
  <2>1. \A n \in 1..L : n \in 1..Len(a)
    BY <1>0, <1>1
  <2> QED BY <1>1, <1>2, <2>1 DEF Rising
<1>4. Rows(a) = {a[m] : m \in 1..(L + 1)} /\ Rows(s) = {s[m] : m \in 1..L}
  BY <1>1, <1>2, <1>3, RowsAre
<1>5. Rows(a) = Rows(s) \cup {x}
  <2>1. \A m \in 1..(L + 1) : m \in 1..L \/ m = L + 1
    BY <1>0
  <2>2. 1..L \subseteq 1..(L + 1) /\ L + 1 \in 1..(L + 1)
    BY <1>0
  <2> QED BY <1>1, <1>4, <2>1, <2>2
<1> QED BY <1>3, <1>5 DEF a

\* A sample later than all that were seen is seen after them.
LEMMA LaterSeen ==
  ASSUME NEW s \in Seq(Samples), NEW all \in Seq(Samples), NEW x \in Samples,
         Rising(s), Rows(s) \subseteq Rows(all), Rising(Append(all, x))
  PROVE  Rising(Append(s, x))
<1> DEFINE a == Append(s, x)
           b == Append(all, x)
           L == Len(s)
           M == Len(all)
<1>0. L \in Nat /\ M \in Nat
  BY LenProperties
<1>1. /\ Len(a) = L + 1 /\ a[L + 1] = x
      /\ \A n \in 1..L : a[n] = s[n]
      /\ Len(b) = M + 1 /\ b[M + 1] = x
      /\ \A n \in 1..M : b[n] = all[n]
  BY AppendProperties, LenProperties
<1>2. Rising(b)
  OBVIOUS
<1> HIDE DEF a, b
<1>3. Rows(s) = {s[n] : n \in 1..L} /\ Rows(all) = {all[n] : n \in 1..M}
  BY LaterRow, RowsAre
<1>4. \A i \in 1..L : s[i].t < x.t
  <2> TAKE i \in 1..L
  <2>1. PICK m \in 1..M : all[m] = s[i]
    BY <1>3
  <2>2. m \in 1..(M + 1) /\ M + 1 \in 1..(M + 1) /\ m < M + 1
    BY <1>0
  <2>3. b[m].t < b[M + 1].t
    BY <1>1, <1>2, <2>2 DEF Rising
  <2> QED BY <1>1, <2>1, <2>3
<1>5. ASSUME NEW i \in 1..(L + 1), NEW j \in 1..(L + 1), i < j PROVE a[i].t < a[j].t
  <2>1. i \in 1..L
    BY <1>0, <1>5
  <2>2. CASE j = L + 1
    BY <1>1, <1>4, <2>1, <2>2
  <2>3. CASE j # L + 1
    <3>1. j \in 1..L
      BY <1>0, <2>3
    <3>2. s[i].t < s[j].t
      BY <1>5, <2>1, <3>1 DEF Rising
    <3> QED BY <1>1, <2>1, <3>1, <3>2
  <2> QED BY <2>2, <2>3
<1> QED BY <1>1, <1>5 DEF Rising, a

\* What was expected of earlier samples does not change.
LEMMA ProcessedGrows ==
  ASSUME fcn \in Functions, NEW from \in Nat,
         NEW s \in Seq(Samples), NEW x \in Samples, Rising(Append(s, x)),
         NEW d, Processed(d, s, from, Len(s))
  PROVE  Processed(d, Append(s, x), from, Len(s))
<1> DEFINE a == Append(s, x)
           L == Len(s)
<1>0. L \in Nat
  BY LenProperties
<1>1. /\ a \in Seq(Samples) /\ Len(a) = L + 1 /\ a[L + 1] = x
      /\ \A n \in 1..L : a[n] = s[n]
  BY AppendProperties, LenProperties
<1>2. Rising(a)
  OBVIOUS
<1> HIDE DEF a
<1>3. /\ \A n \in 1..(L + 1) : a[n] \in Samples /\ a[n].t \in Nat
      /\ \A n, m \in 1..(L + 1) : n <= m <=> a[n].t <= a[m].t
  BY <1>1, <1>2, RisingFacts
<1>4. Rising(s) /\ Rows(a) = Rows(s) \cup {x}
  BY LaterRow DEF a
<1>6. \A n \in 1..L : a[n] = s[n]
  BY <1>1
<1>7. Windowed(d.op.values, a, L)
  <2>1. PICK b \in 1..(L + 1) :
          /\ d.op.values = SubSeq(s, b, L)
          /\ \A n \in 1..L : n < b <=> Expired(s[n], s[L].t)
    BY DEF Processed, Windowed
  <2>2. SubSeq(a, b, L) = SubSeq(s, b, L)
    <3>1. b \in Int /\ L \in Int /\ \A n \in b..L : n \in 1..L
      BY <1>0
    <3>2. \A n \in b..L : s[n] \in Samples /\ a[n] \in Samples
      BY <1>0, <1>1, <1>3, <3>1
    <3>3. /\ SubSeq(s, b, L) \in Seq(Samples)
          /\ Len(SubSeq(s, b, L)) = IF b <= L THEN L - b + 1 ELSE 0
          /\ \A i \in 1..(L - b + 1) : SubSeq(s, b, L)[i] = s[b + i - 1]
      BY <3>1, <3>2, SubSeqProperties
    <3>4. /\ SubSeq(a, b, L) \in Seq(Samples)
          /\ Len(SubSeq(a, b, L)) = IF b <= L THEN L - b + 1 ELSE 0
          /\ \A i \in 1..(L - b + 1) : SubSeq(a, b, L)[i] = a[b + i - 1]
      BY <3>1, <3>2, SubSeqProperties
    <3> DEFINE v == SubSeq(s, b, L)
               w == SubSeq(a, b, L)
    <3>5. Len(v) = Len(w) /\ \A i \in 1..Len(v) : v[i] = w[i]
      <4>1. \A i \in 1..Len(v) : i \in 1..(L - b + 1) /\ b + i - 1 \in b..L
        <5>1. CASE b <= L
          BY <1>0, <3>3, <5>1
        <5>2. CASE ~(b <= L)
          BY <3>3, <5>2
        <5> QED BY <5>1, <5>2
      <4>2. \A i \in 1..Len(v) : v[i] = s[b + i - 1] /\ w[i] = a[b + i - 1]
        BY <3>3, <3>4, <4>1
      <4>3. \A i \in 1..Len(v) : s[b + i - 1] = a[b + i - 1]
        BY <1>1, <3>1, <4>1
      <4>4. Len(v) = Len(w)
        BY <3>3, <3>4
      <4> QED BY <4>2, <4>3, <4>4
    <3>6. v \in Seq(Samples) /\ w \in Seq(Samples)
      BY <3>3, <3>4
    <3> HIDE DEF v, w
    <3>7. v = w
      BY <3>5, <3>6, SeqEqual
    <3> QED BY <3>7 DEF v, w
  <2>3. \A n \in 1..L : n < b <=> Expired(a[n], a[L].t)
    <3> TAKE n \in 1..L
    <3>1. a[n] = s[n] /\ L \in 1..L
      BY <1>0, <1>6
    <3>2. a[L] = s[L]
      BY <1>6, <3>1
    <3> QED BY <2>1, <3>1, <3>2
  <2> QED BY <2>1, <2>2, <2>3 DEF Windowed
<1>8. ASSUME NEW n \in 1..L PROVE Expected(a, from, a[n]) = Expected(s, from, s[n])
  <2> DEFINE y == s[n]
  <2>0. /\ a[n] = y /\ y.t \in Nat /\ n \in 1..(L + 1) /\ L + 1 \in 1..(L + 1)
        /\ ~(x.t <= y.t) /\ x.t \in Nat
    <3>1. n \in 1..(L + 1) /\ L + 1 \in 1..(L + 1) /\ ~(L + 1 <= n)
      BY <1>0
    <3>2. a[n] = y /\ a[L + 1] = x
      BY <1>1
    <3>3. a[n].t \in Nat /\ a[L + 1].t \in Nat /\ ~(a[L + 1].t <= a[n].t)
      BY <1>3, <3>1
    <3> QED BY <3>1, <3>2, <3>3
  <2>1. Until(a, y) = Until(s, y)
    <3>3. x.t \notin (y.t - Duration)..(y.t)
      BY <2>0
    <3>4. {z \in Rows(a) : z.t \in (y.t - Duration)..(y.t)}
            = {z \in Rows(s) : z.t \in (y.t - Duration)..(y.t)}
      <4> HIDE DEF y
      <4> QED BY <1>4, <3>3
    <3> QED BY <3>4 DEF Until
  <2>2. Opens(a, from, y) <=> Opens(s, from, y)
    <3>1. ASSUME Opens(a, from, y) PROVE Opens(s, from, y)
      <4>1. PICK m \in 1..(L + 1) : a[m].t \in from..y.t /\ a[m].v > Target
        BY <1>1, <3>1 DEF Opens
      <4>2. m # L + 1
        BY <1>1, <2>0, <4>1
      <4>3. m \in 1..L
        BY <1>0, <4>2
      <4> QED BY <1>1, <4>1, <4>3 DEF Opens
    <3>2. ASSUME Opens(s, from, y) PROVE Opens(a, from, y)
      <4>1. PICK m \in 1..L : s[m].t \in from..y.t /\ s[m].v > Target
        BY <3>2 DEF Opens
      <4>2. m \in 1..Len(a) /\ a[m] = s[m]
        BY <1>0, <1>1
      <4> QED BY <4>1, <4>2 DEF Opens
    <3> QED BY <3>1, <3>2
  <2> HIDE DEF y
  <2>3. Expected(a, from, y) = Expected(s, from, y)
    BY <2>1, <2>2 DEF Expected
  <2> QED BY <2>0, <2>3 DEF y
<1>9. {q \in 1..L : a[q].t >= from} = {q \in 1..L : s[q].t >= from}
  BY <1>6
<1>10. UNION {Expected(a, from, a[n]) : n \in {q \in 1..L : a[q].t >= from}}
         = UNION {Expected(s, from, s[n]) : n \in {q \in 1..L : s[q].t >= from}}
  BY <1>8, <1>9
<1>11. OpenedSince(a, from, L) <=> OpenedSince(s, from, L)
  BY <1>6 DEF OpenedSince
<1> QED BY <1>7, <1>10, <1>11 DEF Processed, a

\* A sample of a batch of its own.
LEMMA ProcessAlone ==
  ASSUME fcn \in Functions, NEW from \in Nat, NEW x \in Samples,
         NEW o \in Operators, SumsOf(o), NEW results \in SUBSET Results,
         \A r \in results : r.t >= from, NEW d, d = ProcessNewValues(o, <<x>>, from)
  PROVE  /\ d \in Dones(from)
         /\ [op |-> o, out |-> results] \in Dones(from)
         /\ [op |-> d.op, out |-> results \cup d.out]
              = Process([op |-> o, out |-> results], x, from)
<1> DEFINE xs == <<x>>
           zero == [op |-> o, out |-> {}]
           e == [op |-> o, out |-> results]
<1>1. xs \in Seq(Samples) /\ Len(xs) = 1 /\ xs[1] = x
  OBVIOUS
<1>2. d = Process(zero, x, from) /\ d \in Dones(from)
  <2> HIDE DEF xs
  <2>1. PICK g \in [0..Len(xs) -> Dones(from)] :
          /\ g[0] = zero
          /\ \A j \in 1..Len(xs) : g[j] = Process(g[j - 1], xs[j], from)
          /\ g[Len(xs)] = ProcessNewValues(o, xs, from)
    BY <1>1, ProcessSteps
  <2>2. g[1] = Process(g[0], x, from) /\ g[1] \in Dones(from)
    <3>1. 1 \in 1..Len(xs) /\ 1 \in 0..Len(xs) /\ 1 - 1 = 0
      BY <1>1
    <3>2. g[1] = Process(g[1 - 1], xs[1], from) /\ g[1] \in Dones(from)
      BY <2>1, <3>1
    <3> QED BY <1>1, <3>1, <3>2
  <2>3. d = g[1]
    BY <1>1, <2>1 DEF xs
  <2> QED BY <2>1, <2>2, <2>3
<1>3. e \in Dones(from)
  BY DEF Dones
<1>4. [op |-> d.op, out |-> results \cup d.out] = Process(e, x, from)
  <2> DEFINE p == Push(o, x)
             c == Compute(p, x)
  <2>1. zero.op = o /\ e.op = o /\ zero.out = {} /\ e.out = results
    OBVIOUS
  <2>2. /\ Process(zero, x, from) = IF x.t < from THEN [zero EXCEPT !.op = p]
                                     ELSE [op |-> c.op, out |-> {} \cup c.out]
        /\ Process(e, x, from) = IF x.t < from THEN [e EXCEPT !.op = p]
                                  ELSE [op |-> c.op, out |-> results \cup c.out]
    BY <2>1 DEF Process
  <2> HIDE DEF p, c
  <2>3. CASE x.t < from
    <3>1. d.op = p /\ d.out = {} /\ Process(e, x, from) = [op |-> p, out |-> results]
      BY <1>2, <2>2, <2>3
    <3> QED BY <3>1
  <2>4. CASE ~(x.t < from)
    <3>1. /\ d = [op |-> c.op, out |-> {} \cup c.out]
          /\ Process(e, x, from) = [op |-> c.op, out |-> results \cup c.out]
      <4>1. d = Process(zero, x, from)
        BY <1>2
      <4> HIDE DEF e, zero
      <4> QED BY <2>2, <2>4, <4>1
    <3>2. d.op = c.op /\ d.out = c.out
      BY <3>1
    <3> QED BY <3>1, <3>2
  <2> QED BY <2>3, <2>4
<1> QED BY <1>2, <1>3, <1>4

-----------------------------------------------------------------------------
(***************************************************************************)
(* The invariant.                                                          *)
(***************************************************************************)
\* The invariant holds at first.
LEMMA SeriesInitIInv == SeriesInit => SeriesIInv
<1> SUFFICES ASSUME SeriesInit PROVE SeriesIInv
  OBVIOUS
<1>1. SeriesTypeOK
  <2>1. log \in Seq(Samples) /\ seen \in Seq(Samples) /\ op \in Operators
    BY EmptySeq, FreshFacts DEF SeriesInit
  <2>2. lastPoint \in 0..MaxSampleTime
    BY SampleFacts DEF SeriesInit
  <2> QED BY <2>1, <2>2 DEF SeriesInit, SeriesTypeOK
<1>2. SumsMatchWindow
  BY FreshFacts DEF SeriesInit, SumsMatchWindow, SumsOf
<1> QED BY <1>1, <1>2 DEF SeriesInit, SeriesIInv, SeenInOrder, ProcessedSeen

\* The newest result is at a time of a sample.
LEMMA NewestResult ==
  ASSUME NEW results \in SUBSET Results, NEW newest \in 0..MaxSampleTime
  PROVE  Max({newest} \cup {r.t : r \in results}) \in 0..MaxSampleTime
<1> DEFINE T == {newest} \cup {r.t : r \in results}
<1>1. T \subseteq 0..MaxSampleTime /\ newest \in T
  BY SampleFacts DEF Results
<1> HIDE DEF T
<1>2. T \subseteq Nat /\ T # {} /\ MaxSampleTime \in Nat /\ \A i \in T : i <= MaxSampleTime
  BY <1>1, SampleFacts
<1>3. Max(T) \in T
  BY <1>2, GreatestNumber
<1> QED BY <1>1, <1>3 DEF T

\* This speaks of the state only through the function.
LEMMA SameFunction ==
  ASSUME fcn' = fcn, NEW d, NEW s, NEW from, NEW k
  PROVE  Processed(d, s, from, k)' <=> Processed(d, s, from, k)
<1>1. \A x : Expected(s, from, x)' = Expected(s, from, x)
  BY DEF Expected
<1>2. {Expected(s, from, s[n])' : n \in {q \in 1..k : s[q].t >= from}}
        = {Expected(s, from, s[n]) : n \in {q \in 1..k : s[q].t >= from}}
  BY <1>1
<1> QED BY <1>2 DEF Processed

\* A connection begins with what it loads.
LEMMA ConnectKeeps ==
  ASSUME SeriesIInv, NEW w \in 0..MaxSampleTime, Connect(w)
  PROVE  SeriesIInv'
<1> DEFINE from == StartOf(w)
           xs == Load(from)
           d == ProcessNewValues(Fresh, xs, from)
<1>1. SeriesTypeOK
  BY DEF SeriesIInv
<1>2. from \in Nat
  BY <1>1, SampleFacts DEF StartOf, SeriesTypeOK
<1>3. /\ connected' = TRUE /\ start' = from
      /\ fcn' = fcn /\ date' = date /\ log' = log
      /\ op' = d.op /\ out' = d.out /\ seen' = xs
      /\ lastPoint' = Max({lastPoint} \cup {r.t : r \in d.out})
  BY DEF Connect, Take
<1> HIDE DEF from
<1>4. d \in Dones(from) /\ Processed(d, xs, from, Len(xs))
  BY <1>1, <1>2, ConnectProcesses DEF SeriesTypeOK
<1>5. xs \in Seq(Samples) /\ Rising(xs) /\ Rows(xs) = Loaded(from)
  BY <1>1, LoadIs DEF SeriesTypeOK
<1> HIDE DEF d, xs
<1>6. /\ d.op \in Operators /\ d.out \subseteq Results /\ SumsOf(d.op)
      /\ \A r \in d.out : r.t >= from
      /\ d = [op |-> d.op, out |-> d.out]
  BY <1>4 DEF Dones
<1>7. lastPoint' \in 0..MaxSampleTime
  BY <1>1, <1>3, <1>6, NewestResult DEF SeriesTypeOK
<1>8. SeriesTypeOK'
  BY <1>1, <1>2, <1>3, <1>5, <1>6, <1>7 DEF SeriesTypeOK
<1>9. SumsMatchWindow'
  BY <1>3, <1>6 DEF SumsMatchWindow, SumsOf
<1>10. SeenInOrder'
  <2>1. Loaded(from) \subseteq Rows(log)
    BY DEF Loaded
  <2>2. ASSUME NEW x \in Rows(log), x.t \in Span' PROVE x \in Loaded(from)
    <3>1. CASE date # NoDate
      BY <1>3, <2>2, <3>1 DEF Span, Loaded
    <3>2. CASE date = NoDate
      <4>1. x.t \in (from - Lookback)..MaxSampleTime
        BY <1>3, <2>2, <3>2 DEF Span, Lookback
      <4>2. x.t >= from - Lookback
        BY <1>2, <4>1, SampleFacts DEF Lookback
      <4> QED BY <3>2, <4>2 DEF Loaded
    <3> QED BY <3>1, <3>2
  <2>3. Rows(log') = Rows(log) /\ Rows(seen') = Loaded(from) /\ Rising(seen')
    BY <1>3, <1>5
  <2> QED BY <2>1, <2>2, <2>3 DEF SeenInOrder
<1>11. ProcessedSeen'
  <2>1. PICK l, e, b : l = xs /\ e = d /\ b = from
    OBVIOUS
  <2>2. Processed(e, l, b, Len(l))'
    BY <1>3, <1>4, <2>1, SameFunction
  <2>3. [op |-> op', out |-> out'] = e /\ seen' = l /\ start' = b
    BY <1>3, <1>6, <2>1
  <2> QED BY <2>2, <2>3 DEF ProcessedSeen
<1> QED BY <1>3, <1>6, <1>8, <1>9, <1>10, <1>11 DEF SeriesIInv

\* A sample goes through the operator of the connection, if there is one.
LEMMA SampleKeeps ==
  ASSUME SeriesIInv, NEW x \in Samples, Sample(x)
  PROVE  SeriesIInv'
<1> DEFINE d == ProcessNewValues(op, <<x>>, start)
           e == [op |-> op, out |-> out]
           L == Len(seen)
<1>1. /\ fcn \in Functions /\ log \in Seq(Samples) /\ seen \in Seq(Samples)
      /\ connected \in BOOLEAN /\ start \in Nat
      /\ op \in Operators /\ out \in SUBSET Results
      /\ lastPoint \in 0..MaxSampleTime
      /\ SumsOf(op) /\ \A r \in out : r.t >= start
  BY DEF SeriesIInv, SeriesTypeOK, SumsMatchWindow, SumsOf
<1>2. /\ fcn' = fcn /\ date' = date /\ connected' = connected /\ start' = start
      /\ log' = Append(log, x)
  BY DEF Sample
<1>3. log' \in Seq(Samples) /\ L \in Nat
  BY <1>1, <1>2, AppendProperties, LenProperties
<1>4. /\ d \in Dones(start) /\ e \in Dones(start)
      /\ [op |-> d.op, out |-> out \cup d.out] = Process(e, x, start)
  <2> HIDE DEF d
  <2>1. d = ProcessNewValues(op, <<x>>, start)
    BY DEF d
  <2> QED BY <1>1, <2>1, ProcessAlone
<1>5. CASE connected
  <2>1. /\ op' = d.op /\ out' = out \cup d.out /\ seen' = Append(seen, x)
        /\ lastPoint' = Max({lastPoint} \cup {r.t : r \in d.out})
    BY <1>5 DEF Sample, Take
  <2> HIDE DEF d
  <2>2. /\ d.op \in Operators /\ d.out \in SUBSET Results /\ SumsOf(d.op)
        /\ \A r \in d.out : r.t >= start
    BY <1>4 DEF Dones
  <2>3. lastPoint' \in 0..MaxSampleTime
    BY <1>1, <2>1, <2>2, NewestResult
  <2>4. /\ seen' \in Seq(Samples) /\ Len(seen') = L + 1 /\ seen'[L + 1] = x
    BY <1>1, <2>1, AppendProperties, LenProperties
  <2>5. SeriesTypeOK'
    BY <1>1, <1>2, <1>3, <2>1, <2>2, <2>3, <2>4 DEF SeriesIInv, SeriesTypeOK
  <2>6. SumsMatchWindow' /\ \A r \in out' : r.t >= start'
    BY <1>1, <1>2, <2>1, <2>2 DEF SumsMatchWindow, SumsOf
  <2>7. ASSUME InOrder'
        PROVE  /\ Rising(seen') /\ Rising(log')
               /\ Rising(seen) /\ Rows(seen) \subseteq Rows(log)
               /\ {y \in Rows(log) : y.t \in Span} \subseteq Rows(seen)
               /\ Processed(e, seen, start, L)
    <3>1. LateCount(log') = 0
      BY <2>7 DEF InOrder
    <3>2. InOrder
      BY <1>1, <1>2, <3>1, LateBefore DEF InOrder
    <3>3. /\ Rising(seen) /\ Rows(seen) \subseteq Rows(log)
          /\ {y \in Rows(log) : y.t \in Span} \subseteq Rows(seen)
          /\ Processed(e, seen, start, L)
      BY <1>5, <3>2 DEF SeriesIInv, SeenInOrder, ProcessedSeen
    <3>4. Rising(log')
      BY <1>3, <3>1, NoneLate
    <3>5. Rising(Append(seen, x))
      <4>1. Rising(Append(log, x))
        BY <1>2, <3>4
      <4> QED BY <1>1, <3>3, <4>1, LaterSeen
    <3> QED BY <2>1, <3>3, <3>4, <3>5
  <2>8. SeenInOrder'
    <3> SUFFICES ASSUME InOrder'
                 PROVE  /\ Rising(seen') /\ Rows(seen') \subseteq Rows(log')
                        /\ {y \in Rows(log') : y.t \in Span'} \subseteq Rows(seen')
      BY DEF SeenInOrder
    <3>1. Rows(log') = Rows(log) \cup {x} /\ Rows(seen') = Rows(seen) \cup {x}
      <4>1. Rising(Append(log, x)) /\ Rising(Append(seen, x))
        BY <1>2, <2>1, <2>7
      <4>2. /\ Rows(Append(log, x)) = Rows(log) \cup {x}
            /\ Rows(Append(seen, x)) = Rows(seen) \cup {x}
        BY <1>1, <4>1, LaterRow
      <4> QED BY <1>2, <2>1, <4>2
    <3>2. Span' = Span
      BY <1>2 DEF Span, Lookback
    <3> QED BY <2>7, <3>1, <3>2
  <2>9. ProcessedSeen'
    <3> SUFFICES ASSUME InOrder'
                 PROVE  Processed([op |-> op, out |-> out], seen, start, Len(seen))'
      BY DEF ProcessedSeen
    <3>1. PICK l, b, n : l = seen' /\ b = start /\ n = L + 1
      OBVIOUS
    <3>2. Rising(l) /\ l \in Seq(Samples) /\ l = Append(seen, x) /\ Len(l) = n
      BY <2>1, <2>4, <2>7, <3>1
    <3> HIDE DEF e
    <3>3. Processed(e, l, b, L)
      <4>1. Rising(Append(seen, x)) /\ Processed(e, seen, start, L)
        BY <2>7, <3>2
      <4> QED BY <1>1, <3>1, <3>2, <4>1, ProcessedGrows
    <3> DEFINE c == Process(e, l[L + 1], b)
    <3>4. Processed(c, l, b, L + 1)
      <4>1. /\ L \in 0..(Len(l) - 1) /\ b \in Nat /\ fcn \in Functions
            /\ e \in Dones(b)
        BY <1>1, <1>3, <1>4, <3>1, <3>2
      <4> HIDE DEF L
      <4> QED BY <3>2, <3>3, <4>1, ProcessedStep
    <3>5. c = [op |-> op', out |-> out']
      <4>1. c = Process(e, x, start)
        BY <2>4, <3>1
      <4> HIDE DEF c
      <4> QED BY <1>4, <2>1, <4>1
    <3>6. PICK g : g = c
      OBVIOUS
    <3> HIDE DEF c
    <3>7. Processed(g, l, b, n)'
      BY <1>2, <3>1, <3>4, <3>6, SameFunction
    <3>8. /\ [op |-> op', out |-> out'] = g /\ seen' = l /\ start' = b /\ Len(seen') = n
      BY <1>2, <3>1, <3>2, <3>5, <3>6
    <3> QED BY <3>7, <3>8
  <2> QED BY <2>5, <2>6, <2>8, <2>9 DEF SeriesIInv
<1>6. CASE ~connected
  <2>1. op' = op /\ out' = out /\ lastPoint' = lastPoint /\ seen' = seen
    BY <1>6 DEF Sample
  <2>2. SeriesTypeOK'
    BY <1>1, <1>2, <1>3, <2>1 DEF SeriesIInv, SeriesTypeOK
  <2>3. /\ SumsMatchWindow' /\ \A r \in out' : r.t >= start'
        /\ SeenInOrder' /\ ProcessedSeen'
    BY <1>1, <1>2, <1>6, <2>1 DEF SumsMatchWindow, SumsOf, SeenInOrder, ProcessedSeen
  <2> QED BY <2>2, <2>3 DEF SeriesIInv
<1> QED BY <1>1, <1>5, <1>6

\* Every step keeps it.
LEMMA SeriesStepIInv == SeriesIInv /\ [SeriesNext]_seriesVars => SeriesIInv'
<1> SUFFICES ASSUME SeriesIInv, [SeriesNext]_seriesVars PROVE SeriesIInv'
  OBVIOUS
<1>1. ASSUME NEW w \in 0..MaxSampleTime, Connect(w) PROVE SeriesIInv'
  BY <1>1, ConnectKeeps
<1>2. ASSUME NEW x \in Samples, Sample(x) PROVE SeriesIInv'
  BY <1>2, SampleKeeps
<1>3. CASE Disconnect
  <2>1. /\ connected' = FALSE /\ start' = 0 /\ out' = {} /\ op' = Fresh /\ seen' = <<>>
        /\ UNCHANGED <<fcn, date, log, lastPoint>>
    BY <1>3 DEF Disconnect
  <2>2. SeriesTypeOK'
    BY <2>1, FreshFacts, EmptySeq DEF SeriesIInv, SeriesTypeOK
  <2>3. /\ SumsMatchWindow' /\ \A r \in out' : r.t >= start'
        /\ SeenInOrder' /\ ProcessedSeen'
    BY <2>1, FreshFacts DEF SumsMatchWindow, SumsOf, SeenInOrder, ProcessedSeen
  <2> QED BY <2>2, <2>3 DEF SeriesIInv
<1>4. CASE UNCHANGED seriesVars
  <2>1. SeriesTypeOK' /\ SumsMatchWindow' /\ \A r \in out' : r.t >= start'
    BY <1>4 DEF seriesVars, SeriesIInv, SeriesTypeOK, SumsMatchWindow
  <2>2. SeenInOrder'
    BY <1>4 DEF seriesVars, SeriesIInv, SeenInOrder, InOrder, Span, Lookback
  <2>3. ProcessedSeen'
    <3> SUFFICES ASSUME connected', InOrder'
                 PROVE  Processed([op |-> op, out |-> out], seen, start, Len(seen))'
      BY DEF ProcessedSeen
    <3>1. PICK l, b, e : l = seen /\ b = start /\ e = [op |-> op, out |-> out]
      OBVIOUS
    <3>2. Processed(e, l, b, Len(l))
      BY <1>4, <3>1 DEF seriesVars, SeriesIInv, ProcessedSeen, InOrder
    <3>3. Processed(e, l, b, Len(l))'
      BY <1>4, <3>2, SameFunction DEF seriesVars
    <3>4. seen' = l /\ start' = b /\ [op |-> op', out |-> out'] = e
      BY <1>4, <3>1 DEF seriesVars
    <3> QED BY <3>3, <3>4
  <2> QED BY <2>1, <2>2, <2>3 DEF SeriesIInv
<1> QED BY <1>1, <1>2, <1>3, <1>4 DEF SeriesNext, Samples

\* The inductive invariant of ComputedSeries: in each reachable state the
\* sums are those of the window; and when samples come in order, a connection
\* has been given every sample of the times it asks for, and its window, its
\* gate and its results are what these samples should make them.
THEOREM SeriesInvariance == SeriesSpec => []SeriesIInv
<1> QED BY SeriesInitIInv, SeriesStepIInv, PTL DEF SeriesSpec

\* FcnAvg never has to add up its window: the sum and the count it keeps
\* are right whatever the order in which samples come and leave.
THEOREM WindowSums == SeriesSpec => []SumsMatchWindow
<1>1. SeriesIInv => SumsMatchWindow
  BY DEF SeriesIInv
<1> QED BY <1>1, SeriesInvariance, PTL

\* All of the samples give the results that those which a connection was
\* given give, at times whose window it was given all of.
LEMMA SpanResults ==
  ASSUME SeriesIInv, connected, InOrder, NEW T,
         \A t \in T : t >= start /\ (t - Duration)..t \subseteq Span,
         fcn.kind = "gate" => \A t \in T : start..t \subseteq Span
  PROVE  {r \in out : r.t \in T} = ExpectedAt(T)
<1> DEFINE OfSeen(x) == Expected(seen, start, x)
           OfAll(x) == Expected(log, start, x)
<1>1. /\ start \in Nat /\ log \in Seq(Samples) /\ seen \in Seq(Samples)
      /\ fcn.kind \in {"avg", "triangle", "gate"}
  BY ComputedSeriesAssumption DEF SeriesIInv, SeriesTypeOK
<1>2. /\ Rows(seen) = {seen[n] : n \in 1..Len(seen)}
      /\ Rows(log) = {log[n] : n \in 1..Len(log)}
      /\ Rows(log) \subseteq Samples /\ Rows(seen) \subseteq Rows(log)
      /\ \A y \in Rows(log) : y.t \in Span => y \in Rows(seen)
  <2>1. Rising(log)
    BY <1>1, NoneLate DEF InOrder
  <2>2. /\ Rising(seen) /\ Rows(seen) \subseteq Rows(log)
        /\ \A y \in Rows(log) : y.t \in Span => y \in Rows(seen)
    BY DEF SeriesIInv, SeenInOrder
  <2> QED BY <1>1, <2>1, <2>2, RowsAre
<1>3. ASSUME NEW x \in Rows(log), x.t \in T PROVE x \in Rows(seen)
  <2>1. x.t \in Nat
    BY <1>2, SampleFacts
  <2>2. x.t \in (x.t - Duration)..(x.t)
    BY <2>1, SampleFacts
  <2> QED BY <1>2, <1>3, <2>2
<1>4. ASSUME NEW x \in Rows(log), x.t \in T PROVE OfSeen(x) = OfAll(x)
  <2>1. {y \in Rows(seen) : y.t \in (x.t - Duration)..(x.t)}
          = {y \in Rows(log) : y.t \in (x.t - Duration)..(x.t)}
    BY <1>2, <1>4
  <2>2. Until(seen, x) = Until(log, x)
    BY <2>1 DEF Until
  <2>3. fcn.kind = "gate" => (Opens(seen, start, x) <=> Opens(log, start, x))
    <3> HAVE fcn.kind = "gate"
    <3>1. \A y \in Rows(log) : y.t \in start..(x.t) => y \in Rows(seen)
      BY <1>2, <1>4
    <3>2. /\ Opens(seen, start, x) <=>
                \E y \in Rows(seen) : y.t \in start..(x.t) /\ y.v > Target
          /\ Opens(log, start, x) <=>
                \E y \in Rows(log) : y.t \in start..(x.t) /\ y.v > Target
      BY <1>2 DEF Opens
    <3> QED BY <1>2, <3>1, <3>2
  <2> QED BY <1>1, <2>2, <2>3 DEF Expected
<1>5. out = UNION {OfSeen(seen[n]) : n \in {q \in 1..Len(seen) : seen[q].t >= start}}
  BY DEF SeriesIInv, ProcessedSeen, Processed
<1>6. \A x : \A r \in OfSeen(x) \cup OfAll(x) : r.t = x.t
  BY <1>1 DEF Expected, Result
<1> HIDE DEF OfSeen, OfAll
<1>7. ExpectedAt(T) = UNION {OfAll(log[n]) : n \in {q \in 1..Len(log) : log[q].t \in T}}
  BY DEF ExpectedAt, OfAll
<1>8. ASSUME NEW r, r \in out, r.t \in T PROVE r \in ExpectedAt(T)
  <2>1. PICK n \in 1..Len(seen) : r \in OfSeen(seen[n])
    BY <1>5, <1>8
  <2>2. seen[n].t \in T /\ seen[n] \in Rows(log)
    BY <1>2, <1>6, <1>8, <2>1
  <2>3. PICK m \in 1..Len(log) : log[m] = seen[n]
    BY <1>2, <2>2
  <2>4. r \in OfAll(log[m])
    BY <1>4, <2>1, <2>2, <2>3
  <2> QED BY <1>7, <2>2, <2>3, <2>4
<1>9. ASSUME NEW r \in ExpectedAt(T) PROVE r \in out /\ r.t \in T
  <2>1. PICK m \in 1..Len(log) : log[m].t \in T /\ r \in OfAll(log[m])
    BY <1>7, <1>9
  <2>2. log[m] \in Rows(log)
    BY <1>2
  <2>3. PICK n \in 1..Len(seen) : seen[n] = log[m]
    BY <1>2, <1>3, <2>1, <2>2
  <2>4. r \in OfSeen(seen[n]) /\ seen[n].t >= start
    BY <1>4, <2>1, <2>2, <2>3
  <2> QED BY <1>5, <1>6, <2>1, <2>3, <2>4
<1> QED BY <1>8, <1>9

\* Without a date, the results of a connection are those that all of the
\* samples give from the start on that it asks for: it does not matter which
\* of them it has loaded, which came while it was there and which came while
\* there was none.
THEOREM SameResults == SeriesSpec => []ResultsExact
<1>1. ASSUME SeriesIInv, connected, InOrder, ~fcn.chained, date = NoDate
      PROVE  out = ExpectedAt(From(start))
  <2>1. /\ start \in Nat /\ \A r \in out : r.t \in 1..MaxSampleTime /\ r.t >= start
        /\ Duration \in Nat /\ MaxSampleTime \in Nat
    BY <1>1, SampleFacts DEF SeriesIInv, SeriesTypeOK, Results
  <2>2. Span = (start - Duration)..MaxSampleTime
    BY <1>1 DEF Span, Lookback
  <2>3. \A t \in From(start) : /\ t >= start
                              /\ (t - Duration)..t \subseteq Span
                              /\ start..t \subseteq Span
    BY <2>1, <2>2 DEF From
  <2>4. {r \in out : r.t \in From(start)} = ExpectedAt(From(start))
    BY <1>1, <2>3, SpanResults
  <2>5. \A r \in out : r.t \in From(start)
    BY <2>1 DEF From
  <2> QED BY <2>4, <2>5
<1>2. SeriesIInv => ResultsExact
  BY <1>1 DEF ResultsExact
<1> QED BY <1>2, SeriesInvariance, PTL

\* In a chain, and on a day, nothing before the beginning is loaded; the
\* results are those that all samples give where a window is full of those
\* that are.
THEOREM SameOnceFilled == SeriesSpec => []ExactOnceFilled
<1>1. ASSUME SeriesIInv, connected, InOrder, date # NoDate => fcn.kind # "gate"
      PROVE  {r \in out : r.t \in Filled} = ExpectedAt(Filled)
  <2>1. /\ start \in Nat /\ Duration \in Nat /\ MaxSampleTime \in Nat
        /\ Lookback \in Nat /\ date \in Dates
    BY <1>1, SampleFacts DEF SeriesIInv, SeriesTypeOK, Lookback
  <2>2. CASE date = NoDate
    <3>1. Filled = (start + Duration)..MaxSampleTime
          /\ Span = (start - Lookback)..MaxSampleTime
      BY <2>2 DEF Filled, From, Span
    <3>2. \A t \in Filled : /\ t >= start
                           /\ (t - Duration)..t \subseteq Span
                           /\ start..t \subseteq Span
      BY <2>1, <3>1
    <3> QED BY <1>1, <3>2, SpanResults
  <2>3. CASE date # NoDate
    <3>1. date.first \in Nat /\ date.last \in Nat
      BY <2>1, <2>3, ComputedSeriesAssumption
    <3>2. /\ Filled = {t \in (date.first + Duration)..date.last : t >= start}
          /\ Span = date.first..date.last
      BY <2>3 DEF Filled, Span
    <3>3. \A t \in Filled : t >= start /\ (t - Duration)..t \subseteq Span
      BY <2>1, <3>1, <3>2
    <3> QED BY <1>1, <2>3, <3>3, SpanResults
  <2> QED BY <2>2, <2>3
<1>2. SeriesIInv => ExactOnceFilled
  BY <1>1 DEF ExactOnceFilled
<1> QED BY <1>2, SeriesInvariance, PTL
=============================================================================
