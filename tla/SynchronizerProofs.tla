------------------------- MODULE SynchronizerProofs -------------------------
(***************************************************************************)
(* The synchronizer, for every number of charts and every way in which the *)
(* callbacks call each other.  However deep the calls are nested, one loop *)
(* over the charts is running while the block flag is set and none while   *)
(* it is not, unless a callback of the page threw (FlagIsExact); between   *)
(* events the page has seen every window (PageSeesAll), charts differ only *)
(* after a zoom by hand (StaleOnly); selections agree (SelectionsAgree).   *)
(***************************************************************************)
EXTENDS MCSynchronizer, SequenceTheorems, TLAPS

\* OneLoop as properties of a stack that can be followed call by call.
HasLoop(s) == \E i \in 1..Len(s) : s[i].pc = "loop"
OneAtMost(s) == \A i, j \in 1..Len(s) : s[i].pc = "loop" /\ s[j].pc = "loop" => i = j

\* One more call.
LEMMA Call ==
  ASSUME NEW U, NEW s \in Seq(U), NEW f \in U
  PROVE  /\ <<f>> \o s \in Seq(U)
         /\ HasLoop(<<f>> \o s) <=> f.pc = "loop" \/ HasLoop(s)
         /\ OneAtMost(<<f>> \o s) <=> OneAtMost(s) /\ (f.pc = "loop" => ~HasLoop(s))
<1> DEFINE t == <<f>> \o s
<1>1. /\ t \in Seq(U) /\ Len(t) = Len(s) + 1 /\ Len(s) \in Nat
      /\ t[1] = f /\ \A i \in 1..Len(s) : t[i + 1] = s[i]
  BY ConcatProperties
<1> HIDE DEF t
<1>2. \A i \in 1..Len(t) : i = 1 \/ (i - 1 \in 1..Len(s) /\ t[i] = s[i - 1])
  BY <1>1
<1>3. HasLoop(t) <=> f.pc = "loop" \/ HasLoop(s)
  <2>1. ASSUME HasLoop(t) PROVE f.pc = "loop" \/ HasLoop(s)
    BY <1>1, <1>2, <2>1 DEF HasLoop
  <2>2. ASSUME f.pc = "loop" PROVE HasLoop(t)
    BY <1>1, <2>2 DEF HasLoop
  <2>3. ASSUME HasLoop(s) PROVE HasLoop(t)
    <3>1. PICK i \in 1..Len(s) : s[i].pc = "loop"
      BY <2>3 DEF HasLoop
    <3>2. i + 1 \in 1..Len(t) /\ t[i + 1].pc = "loop"
      BY <1>1, <3>1
    <3> QED
      BY <3>2 DEF HasLoop
  <2> QED
    BY <2>1, <2>2, <2>3
<1>4. ASSUME OneAtMost(t) PROVE OneAtMost(s) /\ (f.pc = "loop" => ~HasLoop(s))
  <2>1. ASSUME NEW i \in 1..Len(s), NEW j \in 1..Len(s), s[i].pc = "loop", s[j].pc = "loop"
        PROVE  i = j
    <3>1. /\ i + 1 \in 1..Len(t) /\ t[i + 1].pc = "loop"
          /\ j + 1 \in 1..Len(t) /\ t[j + 1].pc = "loop"
      BY <1>1, <2>1
    <3> QED
      BY <1>4, <3>1 DEF OneAtMost
  <2>2. ASSUME f.pc = "loop", NEW i \in 1..Len(s), s[i].pc = "loop" PROVE FALSE
    <3>1. /\ i + 1 \in 1..Len(t) /\ t[i + 1].pc = "loop"
          /\ 1 \in 1..Len(t) /\ t[1].pc = "loop" /\ i + 1 # 1
      BY <1>1, <2>2
    <3> QED
      BY <1>4, <3>1 DEF OneAtMost
  <2> QED
    BY <2>1, <2>2 DEF OneAtMost, HasLoop
<1>5. ASSUME OneAtMost(s), f.pc = "loop" => ~HasLoop(s) PROVE OneAtMost(t)
  <2> SUFFICES ASSUME NEW i \in 1..Len(t), NEW j \in 1..Len(t),
                      t[i].pc = "loop", t[j].pc = "loop"
               PROVE  i = j
    BY DEF OneAtMost
  <2>1. CASE i # 1 /\ j # 1
    <3>1. i - 1 = j - 1
      BY <1>2, <1>5, <2>1 DEF OneAtMost
    <3> QED
      BY <1>1, <3>1
  <2>2. CASE i = 1 \/ j = 1
    <3>1. f.pc = "loop" => i = 1 /\ j = 1
      BY <1>2, <1>5 DEF HasLoop
    <3> QED
      BY <1>1, <2>2, <3>1
  <2> QED
    BY <2>1, <2>2
<1> QED
  BY <1>1, <1>3, <1>4, <1>5 DEF t

\* Two more calls.
LEMMA TwoCalls ==
  ASSUME NEW U, NEW s \in Seq(U), NEW f \in U, NEW g \in U
  PROVE  /\ <<f, g>> \o s = <<f>> \o (<<g>> \o s)
         /\ <<f, g>> \o s \in Seq(U)
<1>1. <<f, g>> \o s \in Seq(U) /\ <<g>> \o s \in Seq(U) /\ <<f>> \o (<<g>> \o s) \in Seq(U)
  BY ConcatProperties
<1>2. <<f>> \o <<g>> = <<f, g>>
  <2>1. /\ <<f>> \o <<g>> \in Seq(U) /\ <<f, g>> \in Seq(U)
        /\ Len(<<f>> \o <<g>>) = 2 /\ Len(<<f, g>>) = 2
        /\ (<<f>> \o <<g>>)[1] = f /\ (<<f>> \o <<g>>)[2] = g
    BY ConcatProperties
  <2>2. \A i \in 1..2 : (<<f>> \o <<g>>)[i] = <<f, g>>[i]
    BY <2>1
  <2> QED
    BY <2>1, <2>2, SeqEqual
<1>3. (<<f>> \o <<g>>) \o s = <<f>> \o (<<g>> \o s)
  BY ConcatAssociative
<1> QED
  BY <1>1, <1>2, <1>3

\* The call on top, and those below it.
LEMMA TopCall ==
  ASSUME NEW U, NEW s \in Seq(U), s # <<>>
  PROVE  /\ Head(s) \in U /\ Tail(s) \in Seq(U)
         /\ s = <<Head(s)>> \o Tail(s)
<1>1. Head(s) \in U /\ Tail(s) \in Seq(U)
  BY HeadTailProperties
<1>2. s = <<Head(s)>> \o Tail(s)
  BY HeadTailProperties
<1> QED
  BY <1>1, <1>2

\* An empty stack, and a single call.
LEMMA NoCall == ~HasLoop(<<>>) /\ OneAtMost(<<>>)
BY DEF HasLoop, OneAtMost

LEMMA OneLoopOfStack ==
  ASSUME stack \in Seq(FrameType)
  PROVE  OneLoop <=> (~thrown => OneAtMost(stack) /\ (block <=> HasLoop(stack)))
BY DEF OneLoop, Looping, OneAtMost, HasLoop

-----------------------------------------------------------------------------
(***************************************************************************)
(* The calls that the actions put on the stack.                            *)
(***************************************************************************)
LEMMA NIsNat == N \in Nat /\ N >= 2
BY SynchronizerAssumption

\* What is known of a call by its kind.
LEMMA FrameFields ==
  ASSUME NEW f \in FrameType
  PROVE  /\ f.pc \in {"draw", "user", "loop", "detach"}
         /\ f.pc # "detach" => f.chart \in Chart
         /\ f.pc = "loop" => f.next \in 1..(N + 1) /\ f.win \in Window \cup {Null}
                             /\ f.y \in YRange \cup {Null}
         /\ f.pc = "detach" => f.chart \in 1..(N + 1) /\ f.next \in {0, 1}
BY DEF FrameType

\* New calls.
LEMMA NewFrames ==
  /\ \A c \in Chart : /\ DrawOf(c) \in FrameType /\ DrawOf(c).pc = "draw"
                      /\ UserOf(c) \in FrameType /\ UserOf(c).pc = "user"
  /\ \A c \in Chart, w \in Window \cup {Null}, y \in YRange \cup {Null} :
       /\ Frame("loop", c, 1, w, y) \in FrameType
       /\ Frame("loop", c, 1, w, y).pc = "loop"
  /\ Frame("detach", 1, 0, Null, Null) \in FrameType
  /\ Frame("detach", 1, 0, Null, Null).pc = "detach"
BY NIsNat DEF FrameType, Frame, DrawOf, UserOf, Chart

\* A loop that goes on to the next chart.
LEMMA AdvancedFrame ==
  ASSUME NEW f \in FrameType, f.pc = "loop", f.next \in Chart
  PROVE  /\ [f EXCEPT !.next = @ + 1] \in FrameType
         /\ [f EXCEPT !.next = @ + 1].pc = "loop"
BY NIsNat DEF FrameType, Chart

\* detach, at the second draw of a chart and at the next chart.
LEMMA DetachFrames ==
  ASSUME NEW f \in FrameType, f.pc = "detach", f.chart <= N
  PROVE  /\ f.chart \in Chart
         /\ [f EXCEPT !.next = 1] \in FrameType
         /\ [f EXCEPT !.next = 1].pc = "detach"
         /\ [f EXCEPT !.chart = f.chart + 1, !.next = 0] \in FrameType
         /\ [f EXCEPT !.chart = f.chart + 1, !.next = 0].pc = "detach"
<1>1. f \in [pc : {"detach"}, chart : 1..(N + 1), next : {0, 1},
             win : Window \cup {Null}, y : YRange \cup {Null}]
  BY DEF FrameType
<1>2. f.chart \in Chart /\ f.chart + 1 \in 1..(N + 1)
  BY <1>1, NIsNat DEF Chart
<1>3. [f EXCEPT !.next = 1] \in [pc : {"detach"}, chart : 1..(N + 1), next : {0, 1},
             win : Window \cup {Null}, y : YRange \cup {Null}]
  BY <1>1
<1>4. [f EXCEPT !.chart = f.chart + 1, !.next = 0] \in
          [pc : {"detach"}, chart : 1..(N + 1), next : {0, 1},
           win : Window \cup {Null}, y : YRange \cup {Null}]
  BY <1>1, <1>2
<1> QED
  BY <1>2, <1>3, <1>4 DEF FrameType

-----------------------------------------------------------------------------
(***************************************************************************)
(* The invariant.                                                          *)
(***************************************************************************)
OneLoopOn(s, b, th) == ~th => OneAtMost(s) /\ (b <=> HasLoop(s))

\* The charts keep their types.
Values ==
  /\ {win, opt, seen} \subseteq [Chart -> Window \cup {Null}]
  /\ {yset, yopt} \subseteq [Chart -> YRange \cup {Null}]
  /\ auto \in [Chart -> YRange]
  /\ attached \in [Chart -> BOOLEAN]
  /\ source \in 0..N
  /\ events \in 0..MaxEvents /\ reentries \in 0..MaxReentry

LEMMA TypeParts ==
  TypeOK <=> /\ Values /\ block \in BOOLEAN /\ thrown \in BOOLEAN
             /\ stack \in Seq(FrameType)
BY DEF TypeOK, Values

\* The call on top has its type.
LEMMA TopFrame ==
  ASSUME TypeOK, stack # <<>>
  PROVE  /\ Top \in FrameType /\ Tail(stack) \in Seq(FrameType)
         /\ stack = <<Top>> \o Tail(stack)
         /\ Top.pc # "detach" => Top.chart \in Chart
         /\ Top.pc = "loop" => Top.next \in 1..(N + 1) /\ Top.win \in Window \cup {Null}
                               /\ Top.y \in YRange \cup {Null}
<1>1. stack \in Seq(FrameType)
  BY DEF TypeOK
<1>2. Top \in FrameType /\ Tail(stack) \in Seq(FrameType) /\ stack = <<Top>> \o Tail(stack)
  BY <1>1, TopCall DEF Top
<1> QED
  BY <1>2, FrameFields

LEMMA ValuesStep == TypeOK /\ [Next]_vars => Values'
<1> SUFFICES ASSUME TypeOK, [Next]_vars PROVE Values'
  OBVIOUS
<1> USE DEF view, calls, notes, vars, NoEvent, Event, GiveWindow, Running
<1>0. Values /\ MaxEvents \in Nat /\ MaxReentry \in Nat /\ N \in Nat
  BY TypeParts, SynchronizerAssumption
<1> USE <1>0 DEF Values
<1>1. ASSUME NEW c \in Chart, NEW w \in Window \cup {Null}, SetDateWindow(c, w) PROVE Values'
  BY <1>1 DEF SetDateWindow
<1>2. ASSUME NEW c \in Chart, NEW r \in YRange, Update(c, r) PROVE Values'
  BY <1>2 DEF Update
<1>3. ASSUME NEW c \in Chart, NEW w \in Window, ZoomX(c, w) PROVE Values'
  BY <1>3 DEF ZoomX
<1>4. ASSUME NEW c \in Chart, NEW r \in YRange, ZoomY(c, r) PROVE Values'
  BY <1>4 DEF ZoomY
<1>5. ASSUME NEW c \in Chart, ResetZoom(c) PROVE Values'
  BY <1>5 DEF ResetZoom
<1>6. CASE Attach
  BY <1>6 DEF Attach
<1>7. CASE Detach
  BY <1>7 DEF Detach
<1>8. CASE Step
  <2>1. CASE PassOn
    <3>1. Top.pc = "draw" /\ Top.chart \in Chart
      BY <2>1, TopFrame DEF PassOn
    <3> QED
      BY <2>1, <3>1 DEF PassOn
  <2>2. CASE StartLoop
    BY <2>2 DEF StartLoop
  <2>3. CASE LoopSelf
    <3>1. Top.chart \in Chart
      BY <2>3, TopFrame DEF LoopSelf
    <3> QED
      BY <2>3, <3>1 DEF LoopSelf
  <2>4. CASE LoopSkip
    BY <2>4 DEF LoopSkip
  <2>5. CASE LoopUpdate
    <3>1. /\ Top.next \in Chart
          /\ Top.win \in Window \cup {Null} /\ Top.y \in YRange \cup {Null}
      BY <2>5, TopFrame DEF LoopUpdate
    <3>2. (IF SyncRange THEN Top.y ELSE yopt[Top.next]) \in YRange \cup {Null}
      BY <3>1
    <3> QED
      BY <2>5, <3>1, <3>2 DEF LoopUpdate, GiveOptions
  <2>6. CASE LoopEnd
    <3>1. Top.chart \in Chart
      BY <2>6, TopFrame DEF LoopEnd
    <3> QED
      BY <2>6, <3>1 DEF LoopEnd, Chart
  <2>7. CASE DetachStep
    BY <2>7 DEF DetachStep
  <2>8. CASE UserReturns
    BY <2>8 DEF UserReturns
  <2> QED
    BY <1>8, <2>1, <2>2, <2>3, <2>4, <2>5, <2>6, <2>7, <2>8 DEF Step
<1>9. ASSUME NEW c \in Chart, NEW w \in Window, UserSetsWindow(c, w) PROVE Values'
  BY <1>9 DEF UserSetsWindow
<1>10. CASE UserThrows
  BY <1>10 DEF UserThrows
<1>11. CASE UNCHANGED vars
  BY <1>11
<1> QED
  BY <1>1, <1>2, <1>3, <1>4, <1>5, <1>6, <1>7, <1>8, <1>9, <1>10, <1>11 DEF Next

\* What a step does to the stack and the flag.  The steps of a call change
\* the top of the stack only.
LEMMA StackStep ==
  TypeOK /\ OneLoop /\ [Next]_vars =>
    /\ stack' \in Seq(FrameType) /\ OneLoopOn(stack', block', thrown')
    /\ block' \in BOOLEAN /\ thrown' \in BOOLEAN
<1> DEFINE Good == /\ stack' \in Seq(FrameType) /\ OneLoopOn(stack', block', thrown')
                   /\ block' \in BOOLEAN /\ thrown' \in BOOLEAN
<1> SUFFICES ASSUME TypeOK, OneLoop, [Next]_vars PROVE Good
  OBVIOUS
<1>0. /\ stack \in Seq(FrameType) /\ OneLoopOn(stack, block, thrown)
      /\ block \in BOOLEAN /\ thrown \in BOOLEAN
  BY OneLoopOfStack DEF TypeOK, OneLoopOn
<1>a. \A f \in FrameType :
        f.pc # "loop" => /\ <<f>> \in Seq(FrameType)
                         /\ HasLoop(<<f>>) <=> HasLoop(<<>>)
                         /\ OneAtMost(<<f>>)
  <2> SUFFICES ASSUME NEW f \in FrameType, f.pc # "loop"
               PROVE  /\ <<f>> \in Seq(FrameType)
                      /\ HasLoop(<<f>>) <=> HasLoop(<<>>)
                      /\ OneAtMost(<<f>>)
    OBVIOUS
  <2>1. <<f>> \o <<>> = <<f>>
    OBVIOUS
  <2> QED
    <3>1. <<>> \in Seq(FrameType)
      BY EmptySeq
    <3>2. /\ <<f>> \o <<>> \in Seq(FrameType)
          /\ HasLoop(<<f>> \o <<>>) <=> f.pc = "loop" \/ HasLoop(<<>>)
          /\ OneAtMost(<<f>> \o <<>>) <=>
               OneAtMost(<<>>) /\ (f.pc = "loop" => ~HasLoop(<<>>))
      BY <3>1, Call
    <3> QED
      BY <2>1, <3>2, NoCall
\* An event starts with an empty stack.
<1>b. ASSUME NEW f \in FrameType, f.pc # "loop", stack = <<>>, stack' = <<f>>,
             UNCHANGED <<block, thrown>>
      PROVE  Good
  BY <1>0, <1>a, <1>b DEF OneLoopOn
\* A call is replaced by another one, none of the two a loop.
<1>c. ASSUME NEW f \in FrameType, f.pc # "loop", stack # <<>>, Top.pc # "loop",
             stack' = <<f>> \o Tail(stack), UNCHANGED <<block, thrown>>
      PROVE  Good
  BY <1>0, <1>c, TopFrame, Call DEF OneLoopOn
\* A call that is not a loop returns.
<1>d. ASSUME stack # <<>>, Top.pc # "loop", stack' = Tail(stack), UNCHANGED <<block, thrown>>
      PROVE  Good
  BY <1>0, <1>d, TopFrame, Call DEF OneLoopOn
\* A call is made, and the one on top goes on.
<1>e. ASSUME NEW f \in FrameType, NEW g \in FrameType, f.pc # "loop",
             stack # <<>>, g.pc = "loop" <=> Top.pc = "loop",
             stack' = <<f, g>> \o Tail(stack), UNCHANGED <<block, thrown>>
      PROVE  Good
  <2>1. /\ Tail(stack) \in Seq(FrameType) /\ stack = <<Top>> \o Tail(stack)
        /\ Top \in FrameType
    BY <1>e, TopFrame
  <2>2. <<g>> \o Tail(stack) \in Seq(FrameType)
    BY <2>1, Call
  <2>3. stack' = <<f>> \o (<<g>> \o Tail(stack)) /\ stack' \in Seq(FrameType)
    BY <1>e, <2>1, TwoCalls
  <2>4. HasLoop(<<g>> \o Tail(stack)) <=> HasLoop(stack)
    BY <1>e, <2>1, Call
  <2>5. OneAtMost(<<g>> \o Tail(stack)) <=> OneAtMost(stack)
    BY <1>e, <2>1, Call
  <2>6. HasLoop(stack') <=> HasLoop(stack)
    <3>1. HasLoop(<<f>> \o (<<g>> \o Tail(stack)))
            <=> f.pc = "loop" \/ HasLoop(<<g>> \o Tail(stack))
      BY <2>2, Call
    <3> QED
      BY <1>e, <2>3, <2>4, <3>1
  <2>7. OneAtMost(stack') <=> OneAtMost(stack)
    BY <1>e, <2>2, <2>3, <2>5, Call
  <2> QED
    BY <1>0, <1>e, <2>3, <2>6, <2>7 DEF OneLoopOn
\* A loop goes on to the next chart.
<1>f. ASSUME NEW g \in FrameType, g.pc = "loop", stack # <<>>, Top.pc = "loop",
             stack' = <<g>> \o Tail(stack), UNCHANGED <<block, thrown>>
      PROVE  Good
  BY <1>0, <1>f, TopFrame, Call DEF OneLoopOn
<1> HIDE DEF Good
<1>1. ASSUME NEW c \in Chart, NEW w \in Window \cup {Null}, SetDateWindow(c, w) PROVE Good
  BY <1>1, <1>b, NewFrames DEF SetDateWindow, Event, notes
<1>2. ASSUME NEW c \in Chart, NEW r \in YRange, Update(c, r) PROVE Good
  BY <1>2, <1>b, NewFrames DEF Update, Event, notes
<1>3. ASSUME NEW c \in Chart, NEW w \in Window, ZoomX(c, w) PROVE Good
  BY <1>3, <1>b, NewFrames DEF ZoomX, Event, notes
<1>4. ASSUME NEW c \in Chart, NEW r \in YRange, ZoomY(c, r) PROVE Good
  BY <1>4, <1>b, NewFrames DEF ZoomY, Event, notes
<1>5. ASSUME NEW c \in Chart, ResetZoom(c) PROVE Good
  BY <1>5, <1>b, NewFrames DEF ResetZoom, Event, notes
<1>6. CASE Attach
  BY <1>0, <1>6, NoCall DEF Attach, Good, OneLoopOn
<1>7. CASE Detach
  BY <1>7, <1>b, NewFrames DEF Detach, Event, notes
<1>8. CASE Step
  <2>1. CASE PassOn
    <3>1. stack # <<>> /\ Top.pc = "draw" /\ Top.chart \in Chart
      BY <2>1, TopFrame DEF PassOn, Running
    <3> QED
      BY <2>1, <3>1, <1>c, NewFrames DEF PassOn
  <2>2. CASE StartLoop
    <3>1. /\ stack # <<>> /\ Top.pc = "draw" /\ Top.chart \in Chart
          /\ Tail(stack) \in Seq(FrameType) /\ stack = <<Top>> \o Tail(stack)
          /\ Top \in FrameType
      BY <2>2, TopFrame DEF StartLoop, Running
    <3>2. win[Top.chart] \in Window \cup {Null} /\ YAxisRange(Top.chart) \in YRange \cup {Null}
      BY <3>1, TypeParts DEF Values, YAxisRange
    <3>3. PICK f \in FrameType : f.pc = "loop" /\ stack' = <<f>> \o Tail(stack)
      BY <2>2, <3>1, <3>2, NewFrames DEF StartLoop
    <3>4. ~block /\ block' = TRUE /\ thrown' = thrown
      BY <2>2 DEF StartLoop, notes
    <3>5. ~thrown => ~HasLoop(stack) /\ OneAtMost(stack)
      BY <1>0, <3>4 DEF OneLoopOn
    <3>6. ~thrown => ~HasLoop(Tail(stack)) /\ OneAtMost(Tail(stack))
      BY <3>1, <3>5, Call
    <3>7. stack' \in Seq(FrameType) /\ (~thrown => HasLoop(stack') /\ OneAtMost(stack'))
      BY <3>1, <3>3, <3>6, Call
    <3> QED
      BY <1>0, <3>4, <3>7 DEF Good, OneLoopOn
  <2>3. CASE LoopSelf
    <3>1. /\ stack # <<>> /\ Top.pc = "loop" /\ Top.chart \in Chart
          /\ Top \in FrameType /\ Top.next \in Chart
      BY <2>3, TopFrame DEF LoopSelf, Running
    <3>2. Advanced \in FrameType /\ Advanced.pc = "loop"
      BY <3>1, AdvancedFrame DEF Advanced
    <3> QED
      BY <2>3, <3>1, <3>2, <1>e, NewFrames DEF LoopSelf
  <2>4. CASE LoopSkip
    <3>1. stack # <<>> /\ Top.pc = "loop" /\ Top \in FrameType /\ Top.next \in Chart
      BY <2>4, TopFrame DEF LoopSkip, Running
    <3>2. Advanced \in FrameType /\ Advanced.pc = "loop"
      BY <3>1, AdvancedFrame DEF Advanced
    <3> QED
      BY <2>4, <3>1, <3>2, <1>f DEF LoopSkip, notes
  <2>5. CASE LoopUpdate
    <3>1. stack # <<>> /\ Top.pc = "loop" /\ Top \in FrameType /\ Top.next \in Chart
      BY <2>5, TopFrame DEF LoopUpdate, Running
    <3>2. Advanced \in FrameType /\ Advanced.pc = "loop"
      BY <3>1, AdvancedFrame DEF Advanced
    <3> QED
      BY <2>5, <3>1, <3>2, <1>e, NewFrames DEF LoopUpdate, notes
  <2>6. CASE LoopEnd
    <3>1. /\ stack # <<>> /\ Top.pc = "loop" /\ Top \in FrameType
          /\ Tail(stack) \in Seq(FrameType) /\ stack = <<Top>> \o Tail(stack)
      BY <2>6, TopFrame DEF LoopEnd, Running
    <3>2. block' = FALSE /\ stack' = Tail(stack) /\ thrown' = thrown
      BY <2>6 DEF LoopEnd
    <3>3. ~thrown => OneAtMost(stack)
      BY <1>0 DEF OneLoopOn
    <3>4. ~thrown => ~HasLoop(Tail(stack)) /\ OneAtMost(Tail(stack))
      BY <3>1, <3>3, Call
    <3> QED
      BY <1>0, <3>1, <3>2, <3>4 DEF Good, OneLoopOn
  <2>7. CASE DetachStep
    <3>1. /\ stack # <<>> /\ Top.pc = "detach" /\ Top \in FrameType
          /\ Top.chart \in 1..(N + 1)
      BY <2>7, TopFrame, FrameFields DEF DetachStep, Running
    <3>2. CASE Top.chart > N
      <4>1. stack' = Tail(stack) /\ UNCHANGED <<block, thrown>>
        BY <2>7, <3>2 DEF DetachStep, notes
      <4> QED
        BY <3>1, <4>1, <1>d
    <3>3. CASE ~(Top.chart > N)
      <4>1. Top.chart <= N
        BY <3>1, <3>3, NIsNat
      <4>2. UNCHANGED <<block, thrown>>
        BY <2>7 DEF DetachStep, notes
      <4>3. PICK g \in FrameType : g.pc = "detach" /\ stack' = <<DrawOf(Top.chart), g>> \o Tail(stack)
        <5>1. CASE Top.next = 0
          BY <2>7, <3>1, <3>3, <4>1, <5>1, DetachFrames DEF DetachStep
        <5>2. CASE Top.next # 0
          BY <2>7, <3>1, <3>3, <4>1, <5>2, DetachFrames DEF DetachStep
        <5> QED
          BY <5>1, <5>2
      <4>4. DrawOf(Top.chart) \in FrameType /\ DrawOf(Top.chart).pc = "draw"
        BY <3>1, <4>1, DetachFrames, NewFrames
      <4> QED
        BY <3>1, <4>2, <4>3, <4>4, <1>e
    <3> QED
      BY <3>2, <3>3
  <2>8. CASE UserReturns
    <3>1. stack # <<>> /\ Top.pc = "user"
      BY <2>8 DEF UserReturns, Running
    <3> QED
      BY <2>8, <3>1, <1>d DEF UserReturns, notes
  <2> QED
    BY <1>8, <2>1, <2>2, <2>3, <2>4, <2>5, <2>6, <2>7, <2>8 DEF Step
<1>9. ASSUME NEW c \in Chart, NEW w \in Window, UserSetsWindow(c, w) PROVE Good
  <2>1. stack' = <<DrawOf(c)>> \o stack /\ UNCHANGED <<block, thrown>>
    BY <1>9 DEF UserSetsWindow, notes
  <2>2. /\ stack' \in Seq(FrameType)
        /\ HasLoop(stack') <=> HasLoop(stack)
        /\ OneAtMost(stack') <=> OneAtMost(stack)
    BY <1>0, <2>1, NewFrames, Call
  <2> QED
    BY <1>0, <2>1, <2>2 DEF Good, OneLoopOn
<1>10. CASE UserThrows
  <2>1. stack' = <<>> /\ thrown' = TRUE /\ block' = block
    BY <1>10 DEF UserThrows
  <2> QED
    BY <1>0, <2>1, EmptySeq DEF Good, OneLoopOn
<1>11. CASE UNCHANGED vars
  <2>1. UNCHANGED <<stack, block, thrown>>
    BY <1>11 DEF vars, calls, notes
  <2> QED
    BY <1>0, <2>1 DEF Good
<1> QED
  BY <1>1, <1>2, <1>3, <1>4, <1>5, <1>6, <1>7, <1>8, <1>9, <1>10, <1>11 DEF Next

LEMMA InitInvariant == Init => TypeOK /\ OneLoop
<1> SUFFICES ASSUME Init PROVE TypeOK /\ OneLoop
  OBVIOUS
<1>1. Values
  BY NIsNat, SynchronizerAssumption DEF Init, Values, Chart
<1>2. /\ stack = <<>> /\ block = FALSE /\ thrown = FALSE
  BY DEF Init
<1>3. stack \in Seq(FrameType)
  BY <1>2, EmptySeq
<1>4. TypeOK
  BY <1>1, <1>2, <1>3, TypeParts
<1>5. OneLoop
  BY <1>2, <1>3, NoCall, OneLoopOfStack
<1> QED
  BY <1>4, <1>5

LEMMA StepInvariant == TypeOK /\ OneLoop /\ [Next]_vars => TypeOK' /\ OneLoop'
<1> SUFFICES ASSUME TypeOK, OneLoop, [Next]_vars PROVE TypeOK' /\ OneLoop'
  OBVIOUS
<1>1. /\ stack' \in Seq(FrameType) /\ OneLoopOn(stack', block', thrown')
      /\ block' \in BOOLEAN /\ thrown' \in BOOLEAN
  BY StackStep
<1>2. Values'
  BY ValuesStep
<1>3. TypeOK'
  BY <1>1, <1>2 DEF TypeOK, Values
<1>4. OneLoop'
  BY <1>1 DEF OneLoop, Looping, OneLoopOn, OneAtMost, HasLoop
<1> QED
  BY <1>3, <1>4

\* Every variable keeps its type: no call in progress is at a chart that
\* does not exist.
THEOREM TypeCorrectness == Spec => []TypeOK
<1>1. Init => TypeOK /\ OneLoop
  BY InitInvariant
<1>2. TypeOK /\ OneLoop /\ [Next]_vars => (TypeOK /\ OneLoop)'
  BY StepInvariant
<1> QED
  BY <1>1, <1>2, PTL DEF Spec

\* The block flag does what it is for, with any number of charts and however
\* often the page's callbacks set windows of their own.
THEOREM FlagIsExact == Spec => []OneLoop
<1>1. Init => TypeOK /\ OneLoop
  BY InitInvariant
<1>2. TypeOK /\ OneLoop /\ [Next]_vars => (TypeOK /\ OneLoop)'
  BY StepInvariant
<1> QED
  BY <1>1, <1>2, PTL DEF Spec

-----------------------------------------------------------------------------
(***************************************************************************)
(* What the page has seen.  WillBeSeen and ProperStack as properties of a  *)
(* stack that can be followed call by call.                                *)
(***************************************************************************)
Pending(s, c) == \E i \in 1..Len(s) : WillShow(s[i], c)
NoDraw(s) == \A i \in 1..Len(s) : s[i].pc # "draw"
DetachLast(s) == \A i \in 1..Len(s) : s[i].pc = "detach" => i = Len(s)
LoopsAttached(s, a) == \A i \in 1..Len(s) : s[i].pc = "loop" => a[s[i].chart]
DrawFirst(s) == \A i \in 1..Len(s) : s[i].pc = "draw" => i = 1
Proper(s, a) == DrawFirst(s) /\ DetachLast(s) /\ LoopsAttached(s, a)

\* One more call: what is pending, and when the stack stays proper.
LEMMA CallShows ==
  ASSUME NEW U, NEW s \in Seq(U), NEW f \in U
  PROVE  /\ \A c : Pending(<<f>> \o s, c) <=> WillShow(f, c) \/ Pending(s, c)
         /\ NoDraw(<<f>> \o s) <=> f.pc # "draw" /\ NoDraw(s)
         /\ DrawFirst(<<f>> \o s) <=> NoDraw(s)
         /\ DetachLast(<<f>> \o s) <=> DetachLast(s) /\ (f.pc = "detach" => s = <<>>)
         /\ \A a : LoopsAttached(<<f>> \o s, a)
                     <=> (f.pc = "loop" => a[f.chart]) /\ LoopsAttached(s, a)
<1> DEFINE t == <<f>> \o s
<1>1. /\ t \in Seq(U) /\ Len(t) = Len(s) + 1 /\ Len(s) \in Nat
      /\ t[1] = f /\ \A i \in 1..Len(s) : t[i + 1] = s[i]
  BY ConcatProperties
<1>2. s = <<>> <=> Len(s) = 0
  BY EmptySeq
<1> HIDE DEF t
<1>3. \A i \in 1..Len(t) : i = 1 \/ (i - 1 \in 1..Len(s) /\ t[i] = s[i - 1])
  BY <1>1
<1>4. /\ 1 \in 1..Len(t)
      /\ \A i \in 1..Len(s) : i + 1 \in 1..Len(t) /\ i + 1 # 1 /\ t[i + 1] = s[i]
  BY <1>1
<1>5. ASSUME NEW c PROVE Pending(t, c) <=> WillShow(f, c) \/ Pending(s, c)
  <2>1. ASSUME Pending(t, c) PROVE WillShow(f, c) \/ Pending(s, c)
    <3>1. PICK i \in 1..Len(t) : WillShow(t[i], c)
      BY <2>1 DEF Pending
    <3> QED
      BY <1>1, <1>3, <3>1 DEF Pending
  <2>2. ASSUME WillShow(f, c) PROVE Pending(t, c)
    BY <1>1, <1>4, <2>2 DEF Pending
  <2>3. ASSUME Pending(s, c) PROVE Pending(t, c)
    <3>1. PICK i \in 1..Len(s) : WillShow(s[i], c)
      BY <2>3 DEF Pending
    <3>2. i + 1 \in 1..Len(t) /\ WillShow(t[i + 1], c)
      BY <1>4, <3>1
    <3> QED
      BY <3>2 DEF Pending
  <2> QED
    BY <2>1, <2>2, <2>3
<1>6. NoDraw(t) <=> f.pc # "draw" /\ NoDraw(s)
  BY <1>1, <1>3, <1>4 DEF NoDraw
<1>7. DrawFirst(t) <=> NoDraw(s)
  <2>1. ASSUME DrawFirst(t), NEW i \in 1..Len(s) PROVE s[i].pc # "draw"
    BY <1>4, <2>1 DEF DrawFirst
  <2>2. ASSUME NoDraw(s), NEW i \in 1..Len(t), t[i].pc = "draw" PROVE i = 1
    BY <1>3, <2>2 DEF NoDraw
  <2> QED
    BY <2>1, <2>2 DEF DrawFirst, NoDraw
<1>8. DetachLast(t) <=> DetachLast(s) /\ (f.pc = "detach" => s = <<>>)
  <2>1. ASSUME DetachLast(t) PROVE DetachLast(s) /\ (f.pc = "detach" => s = <<>>)
    <3>1. ASSUME NEW i \in 1..Len(s), s[i].pc = "detach" PROVE i = Len(s)
      <4>1. i + 1 = Len(t)
        BY <1>4, <2>1, <3>1 DEF DetachLast
      <4> QED
        BY <1>1, <4>1
    <3>2. ASSUME f.pc = "detach" PROVE s = <<>>
      <4>1. 1 = Len(t)
        BY <1>1, <1>4, <2>1, <3>2 DEF DetachLast
      <4> QED
        BY <1>1, <1>2, <4>1
    <3> QED
      BY <3>1, <3>2 DEF DetachLast
  <2>2. ASSUME DetachLast(s), f.pc = "detach" => s = <<>>,
               NEW i \in 1..Len(t), t[i].pc = "detach"
        PROVE  i = Len(t)
    <3>1. CASE i = 1
      BY <1>1, <1>2, <2>2, <3>1
    <3>2. CASE i # 1
      <4>1. i - 1 = Len(s)
        BY <1>3, <2>2, <3>2 DEF DetachLast
      <4> QED
        BY <1>1, <4>1
    <3> QED
      BY <3>1, <3>2
  <2> QED
    BY <2>1, <2>2 DEF DetachLast
<1>9. ASSUME NEW a
      PROVE  LoopsAttached(t, a) <=> (f.pc = "loop" => a[f.chart]) /\ LoopsAttached(s, a)
  <2>1. ASSUME LoopsAttached(t, a)
        PROVE  (f.pc = "loop" => a[f.chart]) /\ LoopsAttached(s, a)
    <3>1. f.pc = "loop" => a[f.chart]
      BY <1>1, <1>4, <2>1 DEF LoopsAttached
    <3>2. ASSUME NEW i \in 1..Len(s), s[i].pc = "loop" PROVE a[s[i].chart]
      BY <1>4, <2>1, <3>2 DEF LoopsAttached
    <3> QED
      BY <3>1, <3>2 DEF LoopsAttached
  <2>2. ASSUME f.pc = "loop" => a[f.chart], LoopsAttached(s, a),
               NEW i \in 1..Len(t), t[i].pc = "loop"
        PROVE  a[t[i].chart]
    <3>1. CASE i = 1
      BY <1>1, <2>2, <3>1
    <3>2. CASE i # 1
      BY <1>3, <2>2, <3>2 DEF LoopsAttached
    <3> QED
      BY <3>1, <3>2
  <2> QED
    BY <2>1, <2>2 DEF LoopsAttached
<1> QED
  BY <1>5, <1>6, <1>7, <1>8, <1>9 DEF t

\* Nothing is pending on an empty stack.
LEMMA NothingPending ==
  /\ \A c : ~Pending(<<>>, c)
  /\ NoDraw(<<>>) /\ DetachLast(<<>>) /\ DrawFirst(<<>>)
  /\ \A a : LoopsAttached(<<>>, a)
BY DEF Pending, NoDraw, DetachLast, DrawFirst, LoopsAttached

\* The two conjuncts, of any stack.
SeenOrPending(s, sn, w, th, a) ==
  \A c \in Chart : sn[c] = w[c] \/ Pending(s, c) \/ (th /\ a[c])

LEMMA SeenParts ==
  /\ ProperStack <=> Proper(stack, attached)
  /\ WillBeSeen <=> SeenOrPending(stack, seen, win, thrown, attached)
BY DEF ProperStack, WillBeSeen, Proper, DrawFirst, DetachLast, LoopsAttached,
       SeenOrPending, Pending

\* What a call will show.
LEMMA Shows ==
  /\ \A c \in Chart : WillShow(DrawOf(c), c)
  /\ \A c, d : ~WillShow(UserOf(d), c)
  /\ \A c \in Chart : \A w, y : WillShow(Frame("loop", c, 1, w, y), c)
  /\ \A f \in FrameType : \A c : f.pc \in {"user", "detach"} => ~WillShow(f, c)
  /\ \A f \in FrameType : \A c : WillShow(f, c) => f.chart = c /\ f.pc \in {"draw", "loop"}
BY DEF WillShow, DrawOf, UserOf, Frame, Chart

\* A stack with a call on top of a stack whose top is not a draw.
LEMMA TopOfProper ==
  ASSUME TypeOK, ProperStack, stack # <<>>
  PROVE  /\ Top \in FrameType /\ Tail(stack) \in Seq(FrameType)
         /\ NoDraw(Tail(stack)) /\ DetachLast(Tail(stack))
         /\ LoopsAttached(Tail(stack), attached)
         /\ Top.pc = "loop" => attached[Top.chart]
         /\ Top.pc = "detach" => Tail(stack) = <<>>
         /\ \A c : Pending(stack, c) <=> WillShow(Top, c) \/ Pending(Tail(stack), c)
<1>1. /\ Top \in FrameType /\ Tail(stack) \in Seq(FrameType)
      /\ stack = <<Top>> \o Tail(stack)
  BY TopFrame
<1>2. DrawFirst(stack) /\ DetachLast(stack) /\ LoopsAttached(stack, attached)
  BY SeenParts DEF Proper
<1> QED
  BY <1>1, <1>2, CallShows

LEMMA NoDrawFirst == \A s : NoDraw(s) => DrawFirst(s)
BY DEF NoDraw, DrawFirst

\* With the page's callback on top there is no draw in the stack.
LEMMA TopUserNoDraw ==
  ASSUME TypeOK, ProperStack, stack # <<>>, Top.pc = "user"
  PROVE  NoDraw(stack)
<1>1. /\ Top \in FrameType /\ Tail(stack) \in Seq(FrameType)
      /\ stack = <<Top>> \o Tail(stack) /\ NoDraw(Tail(stack))
  BY TopFrame, TopOfProper
<1> QED
  BY <1>1, CallShows

\* A draw on a stack without draws.
LEMMA DrawOnProper ==
  ASSUME NEW s \in Seq(FrameType), NEW a, NEW c \in Chart,
         NoDraw(s), DetachLast(s), LoopsAttached(s, a)
  PROVE  /\ Proper(<<DrawOf(c)>> \o s, a)
         /\ Pending(<<DrawOf(c)>> \o s, c)
         /\ \A d : Pending(s, d) => Pending(<<DrawOf(c)>> \o s, d)
<1>1. DrawOf(c) \in FrameType /\ DrawOf(c).pc = "draw"
  BY NewFrames
<1> QED
  BY <1>1, CallShows, Shows DEF Proper

\* A call that shows nothing, on a stack without draws.
LEMMA QuietOnProper ==
  ASSUME NEW s \in Seq(FrameType), NEW a, NEW c \in Chart,
         NoDraw(s), DetachLast(s), LoopsAttached(s, a)
  PROVE  /\ Proper(<<UserOf(c)>> \o s, a)
         /\ \A d : Pending(s, d) => Pending(<<UserOf(c)>> \o s, d)
<1>1. UserOf(c) \in FrameType /\ UserOf(c).pc = "user"
  BY NewFrames
<1> QED
  BY <1>1, CallShows DEF Proper

\* A loop that goes on shows what it showed, but for the chart it passed.
LEMMA AdvancedShows ==
  ASSUME NEW f \in FrameType, f.pc = "loop", f.next \in Chart
  PROVE  /\ [f EXCEPT !.next = @ + 1].chart = f.chart
         /\ \A c \in Chart : c # f.next /\ WillShow(f, c)
                               => WillShow([f EXCEPT !.next = @ + 1], c)
<1>1. /\ [f EXCEPT !.next = @ + 1].chart = f.chart
      /\ [f EXCEPT !.next = @ + 1].pc = "loop"
      /\ [f EXCEPT !.next = @ + 1].next = f.next + 1
  BY DEF FrameType
<1>2. ASSUME NEW c \in Chart, c # f.next, f.next <= c PROVE f.next + 1 <= c
  BY <1>2, NIsNat DEF Chart
<1> QED
  BY <1>1, <1>2 DEF WillShow

\* A step keeps the stack proper, and what the page has not seen pending.
LEMMA SeenStep ==
  TypeOK /\ ProperStack /\ WillBeSeen /\ [Next]_vars => ProperStack' /\ WillBeSeen'
<1> DEFINE Good == /\ Proper(stack', attached')
                   /\ SeenOrPending(stack', seen', win', thrown', attached')
<1> SUFFICES ASSUME TypeOK, ProperStack, WillBeSeen, [Next]_vars PROVE Good
  BY DEF ProperStack, WillBeSeen, Proper, DrawFirst, DetachLast, LoopsAttached,
         SeenOrPending, Pending
<1>0. /\ Proper(stack, attached) /\ SeenOrPending(stack, seen, win, thrown, attached)
      /\ win \in [Chart -> Window \cup {Null}] /\ seen \in [Chart -> Window \cup {Null}]
      /\ attached \in [Chart -> BOOLEAN] /\ thrown \in BOOLEAN
      /\ stack \in Seq(FrameType)
  BY SeenParts DEF TypeOK
\* A chart is drawn that has, or not, got another window.
<1>a. ASSUME NEW c \in Chart, NoDraw(stack), DetachLast(stack),
             LoopsAttached(stack, attached),
             stack' = <<DrawOf(c)>> \o stack,
             \A d \in Chart \ {c} : win'[d] = win[d],
             UNCHANGED <<seen, thrown, attached>>
      PROVE  Good
  <2>1. /\ Proper(stack', attached') /\ Pending(stack', c)
        /\ \A d : Pending(stack, d) => Pending(stack', d)
    BY <1>0, <1>a, DrawOnProper
  <2> QED
    BY <1>0, <1>a, <2>1 DEF SeenOrPending
\* An event.
<1>b. ASSUME NEW c \in Chart, stack = <<>>, stack' = <<DrawOf(c)>>,
             \A d \in Chart \ {c} : win'[d] = win[d],
             UNCHANGED <<seen, thrown, attached>>
      PROVE  Good
  <2>1. stack' = <<DrawOf(c)>> \o stack
    BY <1>b
  <2>2. NoDraw(stack) /\ DetachLast(stack) /\ LoopsAttached(stack, attached)
    BY <1>b, NothingPending
  <2> QED
    BY <1>a, <1>b, <2>1, <2>2
\* A call goes on to the page's callback, or returns, and shows the window of
\* its chart.
<1> HIDE DEF Good
<1>1. ASSUME NEW c \in Chart, NEW w \in Window \cup {Null}, SetDateWindow(c, w) PROVE Good
  BY <1>0, <1>1, <1>b DEF SetDateWindow, Event, notes, GiveWindow
<1>2. ASSUME NEW c \in Chart, NEW r \in YRange, Update(c, r) PROVE Good
  BY <1>0, <1>2, <1>b DEF Update, Event, notes
<1>3. ASSUME NEW c \in Chart, NEW w \in Window, ZoomX(c, w) PROVE Good
  BY <1>0, <1>3, <1>b DEF ZoomX, Event, notes
<1>4. ASSUME NEW c \in Chart, NEW r \in YRange, ZoomY(c, r) PROVE Good
  BY <1>0, <1>4, <1>b DEF ZoomY, Event, notes
<1>5. ASSUME NEW c \in Chart, ResetZoom(c) PROVE Good
  BY <1>0, <1>5, <1>b DEF ResetZoom, Event, notes
<1>6. CASE Attach
  <2>1. /\ stack = <<>> /\ stack' = <<>> /\ UNCHANGED <<win, seen>>
        /\ \A c \in Chart : ~attached[c]
    BY <1>6 DEF Attach, view
  <2>2. \A c \in Chart : seen[c] = win[c]
    BY <1>0, <2>1, NothingPending DEF SeenOrPending
  <2> QED
    BY <2>1, <2>2, NothingPending DEF Good, Proper, SeenOrPending
<1>7. CASE Detach
  <2>1. /\ stack = <<>> /\ stack' = <<Frame("detach", 1, 0, Null, Null)>> \o <<>>
        /\ UNCHANGED <<win, seen, thrown, attached>>
    BY <1>7 DEF Detach, Event, notes, view
  <2> DEFINE f == Frame("detach", 1, 0, Null, Null)
  <2>2. f \in FrameType /\ f.pc = "detach" /\ <<>> \in Seq(FrameType)
    BY NewFrames, EmptySeq
  <2>3. stack' = <<f>> \o <<>>
    BY <2>1
  <2> HIDE DEF f
  <2>4. Proper(stack', attached')
    BY <2>2, <2>3, CallShows, NothingPending DEF Proper
  <2> QED
    BY <1>0, <2>1, <2>4, NothingPending DEF Good, SeenOrPending
<1>8. CASE Step
  <2>1. CASE PassOn
    <3>1. /\ stack # <<>> /\ Top.pc = "draw" /\ Top.chart \in Chart
          /\ stack' = <<UserOf(Top.chart)>> \o Tail(stack)
          /\ seen' = [seen EXCEPT ![Top.chart] = win[Top.chart]]
          /\ UNCHANGED <<win, attached, thrown>>
      BY <2>1, TopFrame DEF PassOn, Running, view
    <3>2. /\ Proper(stack', attached')
          /\ \A d : Pending(Tail(stack), d) => Pending(stack', d)
      BY <1>0, <3>1, TopOfProper, QuietOnProper
    <3>3. \A d : Pending(stack, d) => d = Top.chart \/ Pending(stack', d)
      BY <3>1, <3>2, TopOfProper, Shows
    <3> QED
      BY <1>0, <3>1, <3>2, <3>3 DEF Good, SeenOrPending
  <2>2. CASE StartLoop
    <3>1. /\ stack # <<>> /\ Top.pc = "draw" /\ Top.chart \in Chart
          /\ attached[Top.chart]
          /\ UNCHANGED <<win, seen, attached, thrown>>
      BY <2>2, TopFrame DEF StartLoop, Running, view, notes
    <3>2. win[Top.chart] \in Window \cup {Null} /\ YAxisRange(Top.chart) \in YRange \cup {Null}
      BY <3>1, TypeParts DEF Values, YAxisRange
    <3> DEFINE f == Frame("loop", Top.chart, 1, win[Top.chart], YAxisRange(Top.chart))
    <3>3. /\ f \in FrameType /\ f.pc = "loop" /\ f.chart = Top.chart
          /\ WillShow(f, Top.chart) /\ stack' = <<f>> \o Tail(stack)
      BY <2>2, <3>1, <3>2, NewFrames, Shows DEF StartLoop, Frame
    <3> HIDE DEF f
    <3>4. /\ Proper(stack', attached')
          /\ \A d : Pending(Tail(stack), d) \/ d = Top.chart => Pending(stack', d)
      <4>1. /\ Tail(stack) \in Seq(FrameType)
            /\ NoDraw(Tail(stack)) /\ DetachLast(Tail(stack))
            /\ LoopsAttached(Tail(stack), attached)
        BY <3>1, TopOfProper
      <4>2. /\ DrawFirst(<<f>> \o Tail(stack)) /\ DetachLast(<<f>> \o Tail(stack))
            /\ LoopsAttached(<<f>> \o Tail(stack), attached)
        BY <3>1, <3>3, <4>1, CallShows
      <4>3. \A d : Pending(<<f>> \o Tail(stack), d) <=> WillShow(f, d) \/ Pending(Tail(stack), d)
        BY <3>3, <4>1, CallShows
      <4> QED
        BY <3>1, <3>3, <4>2, <4>3 DEF Proper
    <3>5. \A d : Pending(stack, d) => Pending(stack', d)
      BY <3>1, <3>4, TopOfProper, Shows
    <3> QED
      BY <1>0, <3>1, <3>4, <3>5 DEF Good, SeenOrPending
  <2>3. CASE LoopSelf
    <3>1. /\ stack # <<>> /\ Top.pc = "loop" /\ Top.chart \in Chart
          /\ Top \in FrameType /\ Top.next = Top.chart
          /\ Tail(stack) \in Seq(FrameType)
          /\ stack' = <<UserOf(Top.chart), Advanced>> \o Tail(stack)
          /\ seen' = [seen EXCEPT ![Top.chart] = win[Top.chart]]
          /\ UNCHANGED <<win, attached, thrown>>
      BY <2>3, TopFrame DEF LoopSelf, Running, view
    <3>2. /\ Advanced \in FrameType /\ Advanced.pc = "loop" /\ Advanced.chart = Top.chart
      BY <3>1, AdvancedFrame, AdvancedShows DEF Advanced
    <3> DEFINE s == <<Advanced>> \o Tail(stack)
    <3>3. s \in Seq(FrameType) /\ stack' = <<UserOf(Top.chart)>> \o s
      BY <3>1, <3>2, TwoCalls, Call, NewFrames
    <3>4. /\ NoDraw(s) /\ DetachLast(s) /\ LoopsAttached(s, attached)
          /\ \A d : Pending(Tail(stack), d) => Pending(s, d)
      BY <3>1, <3>2, TopOfProper, CallShows
    <3> HIDE DEF s
    <3>5. /\ Proper(stack', attached')
          /\ \A d : Pending(Tail(stack), d) => Pending(stack', d)
      BY <3>1, <3>3, <3>4, QuietOnProper
    <3>6. \A d : Pending(stack, d) => d = Top.chart \/ Pending(stack', d)
      BY <3>1, <3>5, TopOfProper, Shows
    <3> QED
      BY <1>0, <3>1, <3>5, <3>6 DEF Good, SeenOrPending
  <2>4. CASE LoopSkip
    <3>1. /\ stack # <<>> /\ Top.pc = "loop" /\ Top.chart \in Chart
          /\ Top \in FrameType /\ Top.next \in Chart /\ Top.next # Top.chart
          /\ Tail(stack) \in Seq(FrameType)
          /\ stack' = <<Advanced>> \o Tail(stack)
          /\ UNCHANGED <<win, seen, attached, thrown>>
      BY <2>4, TopFrame DEF LoopSkip, Running, view, notes
    <3>2. /\ Advanced \in FrameType /\ Advanced.pc = "loop" /\ Advanced.chart = Top.chart
          /\ \A d : d = Top.chart /\ WillShow(Top, d) => WillShow(Advanced, d)
      BY <3>1, AdvancedFrame, AdvancedShows DEF Advanced
    <3>3. /\ Proper(stack', attached')
          /\ \A d : WillShow(Advanced, d) \/ Pending(Tail(stack), d) => Pending(stack', d)
      BY <1>0, <3>1, <3>2, TopOfProper, CallShows, NoDrawFirst DEF Proper
    <3>4. \A d : Pending(stack, d) => Pending(stack', d)
      BY <3>1, <3>2, <3>3, TopOfProper, Shows
    <3> QED
      BY <1>0, <3>1, <3>3, <3>4 DEF Good, SeenOrPending
  <2>5. CASE LoopUpdate
    <3>1. /\ stack # <<>> /\ Top.pc = "loop" /\ Top.chart \in Chart
          /\ Top \in FrameType /\ Top.next \in Chart /\ Top.next # Top.chart
          /\ Tail(stack) \in Seq(FrameType)
          /\ stack' = <<DrawOf(Top.next), Advanced>> \o Tail(stack)
          /\ UNCHANGED <<seen, attached, thrown>>
      BY <2>5, TopFrame DEF LoopUpdate, Running, view, notes
    <3>2. \A d \in Chart \ {Top.next} : win'[d] = win[d]
      BY <1>0, <2>5 DEF LoopUpdate, GiveOptions
    <3>3. /\ Advanced \in FrameType /\ Advanced.pc = "loop" /\ Advanced.chart = Top.chart
          /\ \A d : d = Top.chart /\ WillShow(Top, d) => WillShow(Advanced, d)
      BY <3>1, AdvancedFrame, AdvancedShows DEF Advanced
    <3> DEFINE s == <<Advanced>> \o Tail(stack)
    <3>4. s \in Seq(FrameType) /\ stack' = <<DrawOf(Top.next)>> \o s
      BY <3>1, <3>3, TwoCalls, Call, NewFrames
    <3>5. /\ NoDraw(s) /\ DetachLast(s) /\ LoopsAttached(s, attached)
          /\ \A d : WillShow(Advanced, d) \/ Pending(Tail(stack), d) => Pending(s, d)
      BY <3>1, <3>3, TopOfProper, CallShows
    <3> HIDE DEF s
    <3>6. /\ Proper(stack', attached') /\ Pending(stack', Top.next)
          /\ \A d : Pending(s, d) => Pending(stack', d)
      <4>1. /\ Proper(<<DrawOf(Top.next)>> \o s, attached)
            /\ Pending(<<DrawOf(Top.next)>> \o s, Top.next)
            /\ \A d : Pending(s, d) => Pending(<<DrawOf(Top.next)>> \o s, d)
        BY <3>1, <3>4, <3>5, DrawOnProper
      <4> QED
        BY <3>1, <3>4, <4>1
    <3>7. \A d : Pending(stack, d) => Pending(stack', d)
      BY <3>1, <3>3, <3>5, <3>6, TopOfProper, Shows
    <3> QED
      BY <1>0, <3>1, <3>2, <3>6, <3>7 DEF Good, SeenOrPending
  <2>6. CASE LoopEnd
    <3>1. /\ stack # <<>> /\ Top.pc = "loop" /\ Top.next > N
          /\ Top.next \in 1..(N + 1)
          /\ stack' = Tail(stack)
          /\ UNCHANGED <<win, seen, attached, thrown>>
      BY <2>6, TopFrame DEF LoopEnd, Running, view
    <3>2. \A c \in Chart : ~WillShow(Top, c)
      BY <3>1, NIsNat DEF WillShow, Chart
    <3>3. Proper(stack', attached')
      BY <1>0, <3>1, TopOfProper, NoDrawFirst DEF Proper
    <3>4. \A c \in Chart : Pending(stack, c) => Pending(stack', c)
      BY <3>1, <3>2, TopOfProper
    <3> QED
      BY <1>0, <3>1, <3>3, <3>4 DEF Good, SeenOrPending
  <2>7. CASE DetachStep
    <3>1. /\ stack # <<>> /\ Top.pc = "detach" /\ Top \in FrameType
          /\ Top.chart \in 1..(N + 1) /\ Tail(stack) = <<>>
          /\ UNCHANGED <<win, seen, thrown>>
      BY <2>7, TopFrame, FrameFields, TopOfProper DEF DetachStep, Running, view, notes
    <3>2. \A c : ~Pending(stack, c)
      <4>1. \A c : ~WillShow(Top, c)
        BY <3>1, Shows
      <4>2. \A c : ~Pending(Tail(stack), c)
        BY <3>1, NothingPending
      <4> QED
        BY <3>1, <4>1, <4>2, TopOfProper
    <3>3. CASE Top.chart > N
      <4>1. stack' = <<>> /\ attached' = attached
        BY <2>7, <3>1, <3>3 DEF DetachStep
      <4> QED
        BY <1>0, <3>1, <3>2, <4>1, NothingPending DEF Good, Proper, SeenOrPending
    <3>4. CASE ~(Top.chart > N)
      <4>1. Top.chart <= N /\ Top.chart \in Chart
        BY <3>1, <3>4, NIsNat DEF Chart
      <4>2. attached' = [attached EXCEPT ![Top.chart] = FALSE]
        BY <2>7, <3>4 DEF DetachStep
      <4>3. PICK g \in FrameType : /\ g.pc = "detach"
                                   /\ stack' = <<DrawOf(Top.chart), g>> \o Tail(stack)
        <5>1. CASE Top.next = 0
          BY <2>7, <3>1, <3>4, <4>1, <5>1, DetachFrames DEF DetachStep
        <5>2. CASE Top.next # 0
          BY <2>7, <3>1, <3>4, <4>1, <5>2, DetachFrames DEF DetachStep
        <5> QED
          BY <5>1, <5>2
      <4> DEFINE s == <<g>> \o <<>>
      <4>4. s \in Seq(FrameType) /\ stack' = <<DrawOf(Top.chart)>> \o s
        <5>1. <<>> \in Seq(FrameType) /\ DrawOf(Top.chart) \in FrameType
          BY <4>1, NewFrames, EmptySeq
        <5>2. s \in Seq(FrameType)
          BY <5>1, Call
        <5>3. <<DrawOf(Top.chart), g>> \o <<>> = <<DrawOf(Top.chart)>> \o s
          BY <5>1, TwoCalls
        <5> QED
          BY <3>1, <4>3, <5>2, <5>3
      <4>5. NoDraw(s) /\ DetachLast(s) /\ LoopsAttached(s, attached')
        BY <4>3, EmptySeq, CallShows, NothingPending
      <4> HIDE DEF s
      <4>6. Proper(stack', attached') /\ Pending(stack', Top.chart)
        BY <4>1, <4>4, <4>5, DrawOnProper
      <4> QED
        BY <1>0, <3>1, <3>2, <4>1, <4>2, <4>6 DEF Good, SeenOrPending
    <3> QED
      BY <3>3, <3>4
  <2>8. CASE UserReturns
    <3>1. /\ stack # <<>> /\ Top.pc = "user" /\ stack' = Tail(stack)
          /\ UNCHANGED <<win, seen, attached, thrown>>
      BY <2>8 DEF UserReturns, Running, view, notes
    <3>2. Proper(stack', attached')
      BY <1>0, <3>1, TopOfProper, NoDrawFirst DEF Proper
    <3>3. \A c : Pending(stack, c) => Pending(stack', c)
      BY <3>1, TopOfProper, Shows
    <3> QED
      BY <1>0, <3>1, <3>2, <3>3 DEF Good, SeenOrPending
  <2> QED
    BY <1>8, <2>1, <2>2, <2>3, <2>4, <2>5, <2>6, <2>7, <2>8 DEF Step
<1>9. ASSUME NEW c \in Chart, NEW w \in Window, UserSetsWindow(c, w) PROVE Good
  <2>1. /\ stack # <<>> /\ Top.pc = "user" /\ stack' = <<DrawOf(c)>> \o stack
        /\ UNCHANGED <<seen, attached, thrown>>
        /\ \A d \in Chart \ {c} : win'[d] = win[d]
    BY <1>0, <1>9 DEF UserSetsWindow, Running, notes, GiveWindow
  <2>2. NoDraw(stack) /\ DetachLast(stack) /\ LoopsAttached(stack, attached)
    BY <1>0, <2>1, TopUserNoDraw DEF Proper
  <2> QED
    BY <1>a, <2>1, <2>2
<1>10. CASE UserThrows
  <2>1. /\ stack # <<>> /\ Top.pc = "user" /\ stack' = <<>> /\ thrown' = TRUE
        /\ UNCHANGED <<win, seen, attached>>
    BY <1>10 DEF UserThrows, Running, view
  <2>2. NoDraw(stack) /\ LoopsAttached(stack, attached)
    BY <1>0, <2>1, TopUserNoDraw DEF Proper
  <2>3. \A c : Pending(stack, c) => attached[c]
    BY <2>2 DEF Pending, NoDraw, LoopsAttached, WillShow
  <2> QED
    BY <1>0, <2>1, <2>3, NothingPending DEF Good, Proper, SeenOrPending
<1>11. CASE UNCHANGED vars
  BY <1>0, <1>11 DEF vars, view, calls, notes, Good
<1> QED
  BY <1>1, <1>2, <1>3, <1>4, <1>5, <1>6, <1>7, <1>8, <1>9, <1>10, <1>11 DEF Next

\* Between events the page has seen the window that each chart shows, with any
\* number of charts and however the callbacks call each other.
THEOREM PageSeesAll == Spec => []PageHasSeen
<1> DEFINE I == TypeOK /\ OneLoop /\ ProperStack /\ WillBeSeen
<1>1. Init => I
  <2>1. Init => ProperStack /\ WillBeSeen
    BY SeenParts, NothingPending DEF Init, Proper, SeenOrPending
  <2> QED
    BY <2>1, InitInvariant
<1>2. I /\ [Next]_vars => I'
  BY StepInvariant, SeenStep
<1>3. I => PageHasSeen
  <2> SUFFICES ASSUME I, AtRest PROVE seen = win
    BY DEF PageHasSeen
  <2>1. /\ seen \in [Chart -> Window \cup {Null}] /\ win \in [Chart -> Window \cup {Null}]
    BY DEF TypeOK
  <2>2. \A c \in Chart : seen[c] = win[c]
    BY SeenParts, NothingPending DEF AtRest, SeenOrPending
  <2> QED
    BY <2>1, <2>2
<1> QED
  <2>1. Spec => []I
    BY <1>1, <1>2, PTL DEF Spec
  <2> QED
    BY <1>3, <2>1, PTL

-----------------------------------------------------------------------------
(***************************************************************************)
(* What a loop has copied.                                                 *)
(***************************************************************************)
\* Stacks of one and of two calls.
LEMMA ShortStacks ==
  ASSUME NEW U, NEW f \in U, NEW g \in U
  PROVE  /\ <<f>> # <<>> /\ Head(<<f>>) = f /\ Tail(<<f>>) = <<>>
         /\ <<g, f>> # <<>> /\ Head(<<g, f>>) = g /\ Tail(<<g, f>>) = <<f>>
         /\ <<f>> \o <<>> = <<f>>
         /\ <<g>> \o <<f>> = <<g, f>>
         /\ <<g, f>> \o <<>> = <<g, f>>
<1>1. /\ <<f>> # <<>> /\ Head(<<f>>) = f /\ Tail(<<f>>) = <<>>
      /\ <<g, f>> # <<>> /\ Head(<<g, f>>) = g /\ <<f>> \o <<>> = <<f>>
  OBVIOUS
<1>2. Tail(<<g, f>>) = <<f>>
  <2>1. <<g, f>> \in Seq(U) /\ <<f>> \in Seq(U) /\ Len(<<g, f>>) = 2 /\ <<g, f>>[2] = f
    OBVIOUS
  <2>2. /\ Tail(<<g, f>>) \in Seq(U) /\ Len(Tail(<<g, f>>)) = 1
        /\ Tail(<<g, f>>)[1] = f
    BY <2>1, HeadTailProperties
  <2> QED
    BY <2>1, <2>2, SeqEqual
<1>3. <<g, f>> \o <<>> = <<g, f>>
  <2>1. <<g, f>> \in Seq(U)
    OBVIOUS
  <2> QED
    BY <2>1, ConcatEmptySeq
<1>4. <<g>> \o <<f>> = <<g, f>>
  <2>1. <<g, f>> \o <<>> = <<g>> \o (<<f>> \o <<>>)
    BY TwoCalls, EmptySeq
  <2> QED
    BY <1>1, <1>3, <2>1
<1> QED
  BY <1>1, <1>2, <1>3, <1>4

LEMMA LoopsOfShort ==
  /\ \A f : HasLoop(<<f>>) <=> f.pc = "loop"
  /\ \A f, g : HasLoop(<<g, f>>) <=> g.pc = "loop" \/ f.pc = "loop"
<1>1. ASSUME NEW f PROVE HasLoop(<<f>>) <=> f.pc = "loop"
  BY DEF HasLoop
<1>2. ASSUME NEW f, NEW g PROVE HasLoop(<<g, f>>) <=> g.pc = "loop" \/ f.pc = "loop"
  <2>1. Len(<<g, f>>) = 2 /\ <<g, f>>[1] = g /\ <<g, f>>[2] = f /\ 1..2 = {1, 2}
    OBVIOUS
  <2> QED
    BY <2>1 DEF HasLoop
<1> QED
  BY <1>1, <1>2

\* The disjuncts of LoopCopies.
NoneRuns == /\ stack = <<>>
            /\ source # 0 => Copied(source, N + 1, win[source], YAxisRange(source))
OneRuns(f) == /\ stack = <<f>>
              /\ f.pc = "draw" \/ (f.pc = "detach" /\ f.chart = 1) \/ CopiedBy(f)
TwoRun(g, f) == stack = <<g, f>> /\ g.pc \in {"draw", "user"} /\ CopiedBy(f)
Quiet == ~thrown /\ reentries = 0 /\ AllAttached
ShortStack == \/ NoneRuns
              \/ \E f \in FrameType : OneRuns(f)
              \/ \E f, g \in FrameType : TwoRun(g, f)

LEMMA LoopCopiesParts == LoopCopies <=> (Quiet => ShortStack)
BY DEF LoopCopies, Quiet, ShortStack, NoneRuns, OneRuns, TwoRun

\* The stacks with a given kind of call on top.
LEMMA QuietTop ==
  ASSUME TypeOK, OneLoop, Quiet, ShortStack, stack # <<>>
  PROVE  /\ Top.pc = "draw" /\ ~block => stack = <<Top>>
         /\ Top.pc = "draw" /\ block =>
              \E f \in FrameType : stack = <<Top, f>> /\ Tail(stack) = <<f>> /\ CopiedBy(f)
         /\ Top.pc = "loop" => stack = <<Top>> /\ Tail(stack) = <<>> /\ CopiedBy(Top)
         /\ Top.pc = "user" =>
              \E f \in FrameType : stack = <<Top, f>> /\ Tail(stack) = <<f>> /\ CopiedBy(f)
         /\ Top.pc = "detach" => Top.chart = 1
<1> DEFINE Goal == 
         /\ Top.pc = "draw" /\ ~block => stack = <<Top>>
         /\ Top.pc = "draw" /\ block =>
              \E f \in FrameType : stack = <<Top, f>> /\ Tail(stack) = <<f>> /\ CopiedBy(f)
         /\ Top.pc = "loop" => stack = <<Top>> /\ Tail(stack) = <<>> /\ CopiedBy(Top)
         /\ Top.pc = "user" =>
              \E f \in FrameType : stack = <<Top, f>> /\ Tail(stack) = <<f>> /\ CopiedBy(f)
         /\ Top.pc = "detach" => Top.chart = 1
<1>0. block <=> HasLoop(stack)
  BY OneLoopOfStack DEF Quiet, TypeOK
<1>1. ASSUME NEW f \in FrameType, OneRuns(f) PROVE Goal
  <2>1. stack = <<f>> /\ Top = f /\ Tail(stack) = <<>>
    BY <1>1, ShortStacks DEF OneRuns, Top
  <2>2. block <=> f.pc = "loop"
    BY <1>0, <2>1, LoopsOfShort
  <2>3. f.pc = "draw" \/ (f.pc = "detach" /\ f.chart = 1) \/ (f.pc = "loop" /\ CopiedBy(f))
    BY <1>1 DEF OneRuns, CopiedBy
  <2> QED
    BY <2>1, <2>2, <2>3
<1>2. ASSUME NEW f \in FrameType, NEW g \in FrameType, TwoRun(g, f) PROVE Goal
  <2>1. stack = <<g, f>> /\ Top = g /\ Tail(stack) = <<f>>
    BY <1>2, ShortStacks DEF TwoRun, Top
  <2>2. f.pc = "loop" /\ CopiedBy(f) /\ g.pc \in {"draw", "user"}
    BY <1>2 DEF TwoRun, CopiedBy
  <2>3. block
    BY <1>0, <2>1, <2>2, LoopsOfShort
  <2> QED
    BY <2>1, <2>2, <2>3
<1>3. ~NoneRuns
  BY DEF NoneRuns
<1> HIDE DEF Goal
<1> QED
  <2>1. Goal
    BY <1>1, <1>2, <1>3 DEF ShortStack
  <2> QED
    BY <2>1 DEF Goal

\* A call that has copied its view still has, if nothing is drawn anew.
LEMMA CopiedKept ==
  ASSUME UNCHANGED view, NEW c, NEW next, NEW w, NEW y, Copied(c, next, w, y)
  PROVE  Copied(c, next, w, y)'
BY DEF view, Copied, YAxisRange

\* What a loop has after one more chart.
LEMMA CopiedOneMore ==
  ASSUME NEW c \in Chart, NEW n \in Chart, NEW w, NEW y,
         Copied(c, n, w, y),
         n = c \/ (opt[n] = w /\ (SyncRange => yopt[n] = y))
  PROVE  Copied(c, n + 1, w, y)
<1>1. \A d \in Chart : d < n + 1 => d < n \/ d = n
  BY NIsNat DEF Chart
<1> QED
  BY <1>1 DEF Copied

\* The fields of a loop that goes on to the next chart.
LEMMA AdvancedFields ==
  ASSUME NEW f \in FrameType, f.pc = "loop", f.next \in Chart
  PROVE  /\ [f EXCEPT !.next = @ + 1].chart = f.chart
         /\ [f EXCEPT !.next = @ + 1].next = f.next + 1
         /\ [f EXCEPT !.next = @ + 1].win = f.win
         /\ [f EXCEPT !.next = @ + 1].y = f.y
BY DEF FrameType

\* One step.
LEMMA CopyStep == TypeOK /\ OneLoop /\ LoopCopies /\ [Next]_vars => LoopCopies'
<1> SUFFICES ASSUME TypeOK, OneLoop, LoopCopies, [Next]_vars, Quiet' PROVE ShortStack'
  BY LoopCopiesParts DEF LoopCopies, Quiet, ShortStack, NoneRuns, OneRuns, TwoRun
<1>0. /\ stack \in Seq(FrameType) /\ reentries \in Nat
      /\ attached \in [Chart -> BOOLEAN] /\ attached' \in [Chart -> BOOLEAN]
  BY ValuesStep, SynchronizerAssumption DEF TypeOK, Values
\* An event.
<1>a. ASSUME NEW f \in FrameType, f.pc = "draw" \/ (f.pc = "detach" /\ f.chart = 1),
             stack' = <<f>>
      PROVE  ShortStack'
  BY <1>a DEF ShortStack, OneRuns
\* The step leaves the page quiet, and so it was before.
<1>b. ASSUME UNCHANGED <<thrown, reentries, attached>> PROVE Quiet /\ ShortStack
  BY <1>b, LoopCopiesParts DEF Quiet, AllAttached
<1>1. ASSUME NEW c \in Chart, NEW w \in Window \cup {Null}, SetDateWindow(c, w)
      PROVE  ShortStack'
  BY <1>1, <1>a, NewFrames DEF SetDateWindow
<1>2. ASSUME NEW c \in Chart, NEW r \in YRange, Update(c, r) PROVE ShortStack'
  BY <1>2, <1>a, NewFrames DEF Update
<1>3. ASSUME NEW c \in Chart, NEW w \in Window, ZoomX(c, w) PROVE ShortStack'
  BY <1>3, <1>a, NewFrames DEF ZoomX
<1>4. ASSUME NEW c \in Chart, NEW r \in YRange, ZoomY(c, r) PROVE ShortStack'
  BY <1>4, <1>a, NewFrames DEF ZoomY
<1>5. ASSUME NEW c \in Chart, ResetZoom(c) PROVE ShortStack'
  BY <1>5, <1>a, NewFrames DEF ResetZoom
<1>6. CASE Attach
  BY <1>6 DEF Attach, ShortStack, NoneRuns
<1>7. CASE Detach
  BY <1>7, <1>a, NewFrames DEF Detach, Frame
<1>8. CASE Step
  <2>1. CASE PassOn
    <3>1. /\ stack # <<>> /\ Top.pc = "draw" /\ Top.chart \in Chart
          /\ ~attached[Top.chart] \/ block
          /\ stack' = <<UserOf(Top.chart)>> \o Tail(stack)
          /\ UNCHANGED <<view, thrown, reentries, attached>>
      BY <2>1, TopFrame DEF PassOn, Running, NoEvent
    <3>2. Quiet /\ ShortStack /\ block
      BY <3>1, <1>b DEF Quiet, AllAttached
    <3>3. PICK f \in FrameType : Tail(stack) = <<f>> /\ CopiedBy(f)
      BY <3>1, <3>2, QuietTop
    <3>4. stack' = <<UserOf(Top.chart), f>>
      BY <3>1, <3>3, NewFrames, ShortStacks
    <3>5. CopiedBy(f)'
      BY <3>1, <3>3, CopiedKept DEF CopiedBy
    <3> QED
      BY <3>1, <3>4, <3>5, NewFrames DEF ShortStack, TwoRun
  <2>2. CASE StartLoop
    <3>1. /\ stack # <<>> /\ Top.pc = "draw" /\ Top.chart \in Chart /\ ~block
          /\ UNCHANGED <<view, thrown, reentries, attached>>
      BY <2>2, TopFrame DEF StartLoop, Running, NoEvent, notes
    <3>2. Tail(stack) = <<>>
      <4>1. stack = <<Top>> /\ Top \in FrameType
        BY <3>1, <1>b, QuietTop, TopFrame
      <4> QED
        BY <4>1, ShortStacks
    <3>3. win[Top.chart] \in Window \cup {Null} /\ YAxisRange(Top.chart) \in YRange \cup {Null}
      BY <3>1, TypeParts DEF Values, YAxisRange
    <3>4. PICK f \in FrameType :
            f = Frame("loop", Top.chart, 1, win[Top.chart], YAxisRange(Top.chart))
      BY <3>1, <3>3, NewFrames
    <3>5. stack' = <<f>>
      <4>1. stack' = <<f>> \o <<>>
        BY <2>2, <3>2, <3>4 DEF StartLoop
      <4> QED
        BY <4>1, ShortStacks
    <3>6. /\ f.pc = "loop" /\ f.chart = Top.chart /\ f.next = 1
          /\ f.win = win[Top.chart] /\ f.y = YAxisRange(Top.chart)
      BY <3>4 DEF Frame
    <3>7. \A d \in Chart : ~(d < 1)
      BY NIsNat DEF Chart
    <3>8. Copied(f.chart, f.next, f.win, f.y)
      BY <3>6, <3>7 DEF Copied
    <3>9. CopiedBy(f)'
      BY <3>1, <3>6, <3>8, CopiedKept DEF CopiedBy
    <3> QED
      BY <3>5, <3>9 DEF ShortStack, OneRuns
  <2>3. CASE LoopSelf
    <3>1. /\ stack # <<>> /\ Top.pc = "loop" /\ Top.chart \in Chart
          /\ Top \in FrameType /\ Top.next = Top.chart
          /\ stack' = <<UserOf(Top.chart), Advanced>> \o Tail(stack)
          /\ UNCHANGED <<view, thrown, reentries, attached>>
      BY <2>3, TopFrame DEF LoopSelf, Running, NoEvent
    <3>2. Tail(stack) = <<>> /\ CopiedBy(Top)
      BY <3>1, <1>b, QuietTop
    <3>3. PICK f \in FrameType :
            /\ f = Advanced /\ f.pc = "loop" /\ f.chart = Top.chart
            /\ f.next = Top.next + 1 /\ f.win = Top.win /\ f.y = Top.y
      BY <3>1, AdvancedFrame, AdvancedFields DEF Advanced
    <3>4. PICK g \in FrameType : g = UserOf(Top.chart) /\ g.pc = "user"
      BY <3>1, NewFrames
    <3>5. stack' = <<g, f>>
      BY <3>1, <3>2, <3>3, <3>4, ShortStacks
    <3>6. Copied(f.chart, f.next, f.win, f.y)
      BY <3>1, <3>2, <3>3, CopiedOneMore DEF CopiedBy
    <3>7. CopiedBy(f)'
      BY <3>1, <3>3, <3>6, CopiedKept DEF CopiedBy
    <3> QED
      BY <3>4, <3>5, <3>7 DEF ShortStack, TwoRun
  <2>4. CASE LoopSkip
    <3>1. /\ stack # <<>> /\ Top.pc = "loop" /\ Top.chart \in Chart
          /\ Top \in FrameType /\ Top.next \in Chart
          /\ stack' = <<Advanced>> \o Tail(stack)
          /\ UNCHANGED <<view, thrown, reentries, attached>>
          /\ opt[Top.next] = Top.win /\ (SyncRange => yopt[Top.next] = Top.y)
      BY <2>4, TopFrame DEF LoopSkip, Running, NoEvent, notes, UpToDate
    <3>2. Tail(stack) = <<>> /\ CopiedBy(Top)
      BY <3>1, <1>b, QuietTop
    <3>3. PICK f \in FrameType :
            /\ f = Advanced /\ f.pc = "loop" /\ f.chart = Top.chart
            /\ f.next = Top.next + 1 /\ f.win = Top.win /\ f.y = Top.y
      BY <3>1, AdvancedFrame, AdvancedFields DEF Advanced
    <3>4. stack' = <<f>>
      BY <3>1, <3>2, <3>3, ShortStacks
    <3>5. Copied(f.chart, f.next, f.win, f.y)
      BY <3>1, <3>2, <3>3, CopiedOneMore DEF CopiedBy
    <3>6. CopiedBy(f)'
      BY <3>1, <3>3, <3>5, CopiedKept DEF CopiedBy
    <3> QED
      BY <3>4, <3>6 DEF ShortStack, OneRuns
  <2>5. CASE LoopUpdate
    <3>1. /\ stack # <<>> /\ Top.pc = "loop" /\ Top.chart \in Chart
          /\ Top \in FrameType /\ Top.next \in Chart /\ Top.next # Top.chart
          /\ stack' = <<DrawOf(Top.next), Advanced>> \o Tail(stack)
          /\ GiveOptions(Top.next)
          /\ UNCHANGED <<auto, thrown, reentries, attached>>
      BY <2>5, TopFrame DEF LoopUpdate, Running, NoEvent, notes
    <3>2. Tail(stack) = <<>> /\ CopiedBy(Top)
      BY <3>1, <1>b, QuietTop
    <3>3. PICK f \in FrameType :
            /\ f = Advanced /\ f.pc = "loop" /\ f.chart = Top.chart
            /\ f.next = Top.next + 1 /\ f.win = Top.win /\ f.y = Top.y
      BY <3>1, AdvancedFrame, AdvancedFields DEF Advanced
    <3>4. PICK g \in FrameType : g = DrawOf(Top.next) /\ g.pc = "draw"
      BY <3>1, NewFrames
    <3>5. stack' = <<g, f>>
      BY <3>1, <3>2, <3>3, <3>4, ShortStacks
    <3>6. CopiedBy(f)'
      <4>1. PICK n \in Chart : n = Top.next
        BY <3>1
      <4>2. /\ win \in [Chart -> Window \cup {Null}] /\ opt \in [Chart -> Window \cup {Null}]
            /\ yset \in [Chart -> YRange \cup {Null}] /\ yopt \in [Chart -> YRange \cup {Null}]
        BY DEF TypeOK
      <4>3. /\ f.chart \in Chart /\ f.chart # n /\ f.next = n + 1
            /\ Copied(f.chart, n, f.win, f.y)
        BY <3>1, <3>2, <3>3, <4>1 DEF CopiedBy
      <4>4. /\ win' = [win EXCEPT ![n] = f.win] /\ opt' = [opt EXCEPT ![n] = f.win]
            /\ yopt' = [yopt EXCEPT ![n] = IF SyncRange THEN f.y ELSE yopt[n]]
            /\ yset' = [yset EXCEPT ![n] = IF SyncRange THEN f.y ELSE yopt[n]]
            /\ auto' = auto
        BY <3>1, <3>3, <4>1 DEF GiveOptions
      <4>5. /\ win'[f.chart] = f.win /\ YAxisRange(f.chart)' = f.y
        BY <4>2, <4>3, <4>4 DEF Copied, YAxisRange
      <4>6. \A d \in Chart \ {f.chart} :
              d < n => opt'[d] = f.win /\ (SyncRange => yopt'[d] = f.y)
        BY <4>2, <4>3, <4>4, NIsNat DEF Copied, Chart
      <4>7. opt'[n] = f.win /\ (SyncRange => yopt'[n] = f.y)
        BY <4>2, <4>4
      <4>8. \A d \in Chart : d < f.next => d < n \/ d = n
        BY <4>3, NIsNat DEF Chart
      <4> QED
        BY <3>3, <4>5, <4>6, <4>7, <4>8 DEF CopiedBy, Copied
    <3> QED
      BY <3>4, <3>5, <3>6 DEF ShortStack, TwoRun
  <2>6. CASE LoopEnd
    <3>1. /\ stack # <<>> /\ Top.pc = "loop" /\ Top.chart \in Chart
          /\ Top.next \in 1..(N + 1) /\ Top.next > N
          /\ stack' = Tail(stack) /\ source' = Top.chart
          /\ UNCHANGED <<view, thrown, reentries, attached>>
      BY <2>6, TopFrame DEF LoopEnd, Running, NoEvent
    <3>2. Tail(stack) = <<>> /\ CopiedBy(Top)
      BY <3>1, <1>b, QuietTop
    <3>3. PICK c \in Chart : c = Top.chart
      BY <3>1
    <3>4. Top.next = N + 1
      BY <3>1, NIsNat
    <3>5. Copied(c, N + 1, win[c], YAxisRange(c))
      BY <3>2, <3>3, <3>4 DEF CopiedBy, Copied
    <3>6. source' = c /\ stack' = <<>>
      BY <3>1, <3>2, <3>3
    <3>7. Copied(c, N + 1, win[c], YAxisRange(c))'
      BY <3>1, <3>5 DEF view, Copied, YAxisRange
    <3> QED
      BY <3>6, <3>7 DEF ShortStack, NoneRuns
  <2>7. CASE DetachStep
    <3>1. /\ stack # <<>> /\ Top.pc = "detach" /\ Top.chart \in 1..(N + 1)
          /\ UNCHANGED <<thrown, reentries>>
      BY <2>7, TopFrame, FrameFields DEF DetachStep, Running, notes, NoEvent
    <3>2. CASE Top.chart > N
      <4>1. attached' = attached
        BY <2>7, <3>2 DEF DetachStep
      <4>2. Top.chart = 1
        BY <3>1, <4>1, <1>b, QuietTop
      <4> QED
        BY <3>2, <4>2, NIsNat
    <3>3. CASE ~(Top.chart > N)
      <4>1. attached' = [attached EXCEPT ![Top.chart] = FALSE] /\ Top.chart \in Chart
        BY <2>7, <3>1, <3>3, NIsNat DEF DetachStep, Chart
      <4>2. ~AllAttached'
        BY <1>0, <4>1 DEF AllAttached
      <4> QED
        BY <4>2 DEF Quiet
    <3> QED
      BY <3>2, <3>3
  <2>8. CASE UserReturns
    <3>1. /\ stack # <<>> /\ Top.pc = "user" /\ stack' = Tail(stack)
          /\ UNCHANGED <<view, thrown, reentries, attached>>
      BY <2>8 DEF UserReturns, Running, notes, NoEvent
    <3>2. PICK f \in FrameType : Tail(stack) = <<f>> /\ CopiedBy(f)
      BY <3>1, <1>b, QuietTop
    <3>3. CopiedBy(f)'
      BY <3>1, <3>2, CopiedKept DEF CopiedBy
    <3> QED
      BY <3>1, <3>2, <3>3 DEF ShortStack, OneRuns
  <2> QED
    BY <1>8, <2>1, <2>2, <2>3, <2>4, <2>5, <2>6, <2>7, <2>8 DEF Step
<1>9. ASSUME NEW c \in Chart, NEW w \in Window, UserSetsWindow(c, w) PROVE ShortStack'
  <2>1. reentries' = reentries + 1
    BY <1>9 DEF UserSetsWindow
  <2> QED
    BY <1>0, <2>1 DEF Quiet
<1>10. CASE UserThrows
  BY <1>10 DEF UserThrows, Quiet
<1>11. CASE UNCHANGED vars
  <2>1. /\ UNCHANGED <<view, thrown, reentries, attached, stack, source>>
    BY <1>11 DEF vars, calls, notes
  <2>2. ShortStack
    BY <1>b, <2>1
  <2> QED
    BY <2>1, <2>2 DEF view, ShortStack, NoneRuns, OneRuns, TwoRun, CopiedBy, Copied, YAxisRange
<1> QED
  BY <1>1, <1>2, <1>3, <1>4, <1>5, <1>6, <1>7, <1>8, <1>9, <1>10, <1>11 DEF Next

\* What a finished loop has copied is what the charts show, but for those
\* zoomed by hand.
LEMMA CopiedAgree ==
  ASSUME TypeOK, LoopCopies PROVE OnlyStaleDiffer
<1> SUFFICES ASSUME AtRest, AllAttached, source # 0, reentries = 0,
                    NEW c \in Chart, win[c] = opt[c], yset[c] = yopt[c]
             PROVE  ViewsAgree(c, source)
  BY DEF OnlyStaleDiffer
<1>1. source \in Chart /\ c < N + 1
  BY NIsNat DEF TypeOK, Chart
<1>2. Quiet /\ stack = <<>>
  BY DEF Quiet, AtRest
<1>3. Copied(source, N + 1, win[source], YAxisRange(source))
  <2>1. \A f, g : <<f>> # <<>> /\ <<g, f>> # <<>>
    OBVIOUS
  <2> QED
    BY <1>2, <2>1, LoopCopiesParts DEF ShortStack, NoneRuns, OneRuns, TwoRun
<1>4. YAxisRange(source) \in YRange
  BY <1>1 DEF TypeOK, YAxisRange
<1>5. YAxisRange(source) # Null
  BY <1>4, SynchronizerAssumption
<1> QED
  BY <1>1, <1>3, <1>5 DEF Copied, ViewsAgree, YAxisRange

\* A chart that differs from the one copied last was zoomed by hand, with any
\* number of charts.
THEOREM StaleOnly == Spec => []OnlyStaleDiffer
<1> DEFINE I == TypeOK /\ OneLoop /\ LoopCopies
<1>1. Init => I
  <2>1. Init => LoopCopies
    BY DEF Init, LoopCopies
  <2> QED
    BY <2>1, InitInvariant
<1>2. I /\ [Next]_vars => I'
  BY StepInvariant, CopyStep
<1>3. I => OnlyStaleDiffer
  BY CopiedAgree
<1> QED
  <2>1. Spec => []I
    BY <1>1, <1>2, PTL DEF Spec
  <2> QED
    BY <1>3, <2>1, PTL

-----------------------------------------------------------------------------
(***************************************************************************)
(* The selection half.  A loop that nothing cuts short reaches every other *)
(* chart, so after it each chart shows what was pointed at or has no row   *)
(* there.                                                                  *)
(***************************************************************************)
SelectionInv ==
  /\ rows \in [Chart -> SUBSET X]
  /\ sel \in [Chart -> X \cup {Null}]
  /\ SelectionsMatch

\* One event keeps the selections together.
LEMMA SelectionStep == SelectionInv /\ [S!Next]_(S!vars) => SelectionInv'
<1> SUFFICES ASSUME SelectionInv, [S!Next]_(S!vars) PROVE SelectionInv'
  OBVIOUS
<1> USE DEF SelectionInv, SelectionsMatch, S!SelectionsMatch
<1>0. S!Chart = Chart
  BY DEF S!Chart, Chart
<1>1. ASSUME NEW c \in Chart, NEW x \in X, S!Highlight(c, x) PROVE SelectionInv'
  <2>1. x \in rows[c] /\ rows' = rows
    BY <1>1 DEF S!Highlight
  <2>2. CASE selBlock
    <3>1. /\ sel' = [sel EXCEPT ![c] = x] /\ selThrown
          /\ selThrown' = selThrown /\ drawn' = drawn
      BY <1>1, <2>2 DEF S!Highlight
    <3> QED
      BY <2>1, <3>1
  <2>3. CASE ~selBlock
    <3>1. PICK throws \in BOOLEAN :
            /\ S!Handler(throws)
            /\ sel' = [d \in Chart |->
                         IF d = c \/ (d \in S!Reached(c, throws) /\ x \in rows[d])
                         THEN x ELSE sel[d]]
      BY <1>0, <1>1, <2>3 DEF S!Highlight
    <3>2. pointed' = x
      BY <1>1, <2>3 DEF S!Highlight
    <3>3. sel' \in [Chart -> X \cup {Null}]
      BY <3>1
    <3>4. CASE throws
      BY <2>1, <3>1, <3>3, <3>4 DEF S!Handler
    <3>5. CASE ~throws
      <4>1. ~selBlock'
        BY <3>1, <3>5 DEF S!Handler
      <4>2. \A d \in Chart : sel'[d] = x \/ x \notin rows[d]
        BY <1>0, <3>1, <3>5 DEF S!Reached
      <4> QED
        BY <1>0, <2>1, <3>2, <3>3, <4>1, <4>2
    <3> QED
      BY <3>4, <3>5
  <2> QED
    BY <2>2, <2>3
<1>2. ASSUME NEW c \in Chart, S!Unhighlight(c) PROVE SelectionInv'
  <2>1. rows' = rows
    BY <1>2 DEF S!Unhighlight
  <2>2. CASE selBlock
    <3>1. /\ sel' = [sel EXCEPT ![c] = Null] /\ selThrown
          /\ selThrown' = selThrown /\ drawn' = drawn
      BY <1>2, <2>2 DEF S!Unhighlight
    <3> QED
      BY <2>1, <3>1
  <2>3. CASE ~selBlock
    <3>1. PICK throws \in BOOLEAN :
            /\ S!Handler(throws)
            /\ sel' = [d \in Chart |->
                         IF d \in S!Reached(c, throws) \/ (d = c /\ ~throws)
                         THEN Null ELSE sel[d]]
      BY <1>0, <1>2, <2>3 DEF S!Unhighlight
    <3>2. sel' \in [Chart -> X \cup {Null}]
      BY <3>1
    <3>3. CASE throws
      BY <2>1, <3>1, <3>2, <3>3 DEF S!Handler
    <3>4. CASE ~throws
      <4>1. ~selBlock'
        BY <3>1, <3>4 DEF S!Handler
      <4>2. \A d \in Chart : sel'[d] = Null
        BY <1>0, <3>1, <3>4 DEF S!Reached
      <4>3. pointed' = Null
        BY <1>2, <2>3 DEF S!Unhighlight
      <4> QED
        BY <1>0, <2>1, <3>2, <4>1, <4>2, <4>3
    <3> QED
      BY <3>3, <3>4
  <2> QED
    BY <2>2, <2>3
<1>3. ASSUME NEW c \in Chart, NEW xs \in SUBSET X, S!Draw(c, xs) PROVE SelectionInv'
  BY <1>3 DEF S!Draw
<1>4. CASE UNCHANGED S!vars
  BY <1>4 DEF S!vars
<1> QED
  BY <1>0, <1>1, <1>2, <1>3, <1>4 DEF S!Next

\* However the pointer moves and the charts are redrawn, a chart shows what
\* was last pointed at, unless it was drawn since or has no row there; with
\* any number of charts, until a callback of the page throws.
THEOREM SelectionsAgree == S!Spec => []SelectionsMatch
<1>1. S!Init => SelectionInv
  BY DEF S!Init, S!Chart, Chart, SelectionInv, SelectionsMatch, S!SelectionsMatch
<1>2. SelectionInv /\ [S!Next]_(S!vars) => SelectionInv'
  BY SelectionStep
<1>3. SelectionInv => SelectionsMatch
  BY DEF SelectionInv
<1> QED
  <2>1. S!Spec => []SelectionInv
    BY <1>1, <1>2, PTL DEF S!Spec
  <2> QED
    BY <1>3, <2>1, PTL

=============================================================================
