---------------------------- MODULE Synchronizer ----------------------------
(***************************************************************************)
(* The zoom half of synchronize (synchronizer.js): a drawCallback on each  *)
(* of N charts that copies the view of the chart just drawn to the others. *)
(* Copying draws them, so the callbacks call one another; one flag, block, *)
(* shared by all of them, stops that.                                      *)
(*                                                                         *)
(* A chart is a dygraph.  It keeps the window it shows (dateWindow_) apart *)
(* from the dateWindow option last given to updateOptions, and likewise    *)
(* for the y range; a zoom by hand changes the first and not the second.   *)
(*                                                                         *)
(* JavaScript runs an event to completion, but the callbacks of the page   *)
(* run in the middle of it, so the call stack is part of the state.        *)
(***************************************************************************)
EXTENDS Naturals, Sequences

CONSTANTS
  N,            \* number of charts; a chart is its place in gs
  Window,       \* windows of the x axis
  YRange,       \* ranges of the y axis
  Null,         \* null: no window (all of the data), no range (automatic)
  SyncRange,    \* the range option
  Interactive,  \* the charts can be zoomed by hand
  MayThrow,     \* the page's callbacks may throw
  MaxEvents,    \* bound: events
  MaxReentry    \* bound: windows set from inside the page's callbacks

ASSUME SynchronizerAssumption ==
  /\ N \in Nat \ {0, 1}
  /\ Null \notin Window \cup YRange
  /\ {SyncRange, Interactive, MayThrow} \subseteq BOOLEAN
  /\ MaxEvents \in Nat /\ MaxReentry \in Nat

VARIABLES
  win, opt,     \* of each chart: the window it shows, its dateWindow option
  yset, yopt,   \* the y range it is held to, its valueRange option
  auto,         \* the y range that fits its data
  attached,     \* its drawCallback is the synchronizer's
  block,        \* the flag of attachZoomHandlers
  stack,        \* the calls in progress, the innermost first
  seen,         \* the window it showed when the page's callback last ran
  source,       \* history: the last chart whose view was copied (0: none)
  thrown,       \* history: a callback threw
  events, reentries

view  == <<win, opt, yset, yopt, auto>>
calls == <<attached, block, stack>>
notes == <<seen, source, thrown>>
vars  == <<view, calls, notes, events, reentries>>

Chart == 1..N

\* A call in progress: a chart's draw callback about to run ("draw"), the
\* page's callback ("user"), the loop over gs with the options it copies and
\* the chart it is at ("loop"), detach and the draw it is at ("detach").
Frame(pc, c, next, w, y) == [pc |-> pc, chart |-> c, next |-> next, win |-> w, y |-> y]
DrawOf(c) == Frame("draw", c, 0, Null, Null)
UserOf(c) == Frame("user", c, 0, Null, Null)

Top     == Head(stack)
Running(pc) == stack # <<>> /\ Top.pc = pc

\* yAxisRange
YAxisRange(c) == IF yset[c] = Null THEN auto[c] ELSE yset[c]

Init ==
  /\ win \in [Chart -> Window \cup {Null}] /\ opt = win
  /\ auto \in [Chart -> YRange]
  /\ yset = [c \in Chart |-> Null] /\ yopt = yset
  /\ attached = [c \in Chart |-> FALSE]
  /\ block = FALSE /\ stack = <<>>
  /\ seen = win /\ source = 0 /\ thrown = FALSE
  /\ events = 0 /\ reentries = 0

-----------------------------------------------------------------------------
(***************************************************************************)
(* Events: nothing is running, and something draws a chart.                *)
(***************************************************************************)
Event ==
  /\ stack = <<>> /\ events < MaxEvents /\ events' = events + 1
  /\ UNCHANGED <<reentries, notes>>

\* updateOptions({dateWindow}) makes the axes anew, so a range set by hand
\* falls back to the option.
GiveWindow(c, w) ==
  /\ win' = [win EXCEPT ![c] = w]
  /\ opt' = [opt EXCEPT ![c] = w]
  /\ yset' = [yset EXCEPT ![c] = yopt[c]]

\* setDateWindow, and the interval of scroll.
SetDateWindow(c, w) ==
  /\ Event
  /\ GiveWindow(c, w)
  /\ stack' = <<DrawOf(c)>>
  /\ UNCHANGED <<yopt, auto, attached, block>>

\* update: new data, drawn.
Update(c, r) ==
  /\ Event
  /\ auto' = [auto EXCEPT ![c] = r]
  /\ yset' = [yset EXCEPT ![c] = yopt[c]]
  /\ stack' = <<DrawOf(c)>>
  /\ UNCHANGED <<win, opt, yopt, attached, block>>

\* A drag along one of the axes: the options stay what they were.
ZoomX(c, w) ==
  /\ Interactive /\ Event
  /\ win' = [win EXCEPT ![c] = w]
  /\ stack' = <<DrawOf(c)>>
  /\ UNCHANGED <<opt, yset, yopt, auto, attached, block>>

ZoomY(c, r) ==
  /\ Interactive /\ Event
  /\ yset' = [yset EXCEPT ![c] = r]
  /\ stack' = <<DrawOf(c)>>
  /\ UNCHANGED <<win, opt, yopt, auto, attached, block>>

\* A double click.
ResetZoom(c) ==
  /\ Interactive /\ Event
  /\ win[c] # Null \/ yset[c] # Null
  /\ win' = [win EXCEPT ![c] = Null]
  /\ yset' = [yset EXCEPT ![c] = Null]
  /\ stack' = <<DrawOf(c)>>
  /\ UNCHANGED <<opt, yopt, auto, attached, block>>

\* synchronize: the callbacks are exchanged without a redraw, under a flag
\* of this call's own.
Attach ==
  /\ stack = <<>> /\ events < MaxEvents /\ events' = events + 1
  /\ \A c \in Chart : ~attached[c]
  /\ attached' = [c \in Chart |-> TRUE]
  /\ block' = FALSE
  /\ source' = 0 /\ thrown' = FALSE
  /\ UNCHANGED <<view, stack, seen, reentries>>

Detach ==
  /\ Event
  /\ \A c \in Chart : attached[c]
  /\ stack' = <<Frame("detach", 1, 0, Null, Null)>>
  /\ UNCHANGED <<view, attached, block>>

-----------------------------------------------------------------------------
(***************************************************************************)
(* Steps of the call on top of the stack.                                  *)
(***************************************************************************)
NoEvent == UNCHANGED <<events, reentries>>

\* Rejected variant: the synchronizer's callback just returns if block is set.
PassOnAttached ==
  /\ Running("draw")
  /\ ~attached[Top.chart] \/ block
  /\ stack' = (IF attached[Top.chart] THEN <<>> ELSE <<UserOf(Top.chart)>>) \o Tail(stack)
  /\ seen' = IF attached[Top.chart] THEN seen
             ELSE [seen EXCEPT ![Top.chart] = win[Top.chart]]
  /\ UNCHANGED <<view, attached, block, source, thrown>> /\ NoEvent

\* The chart's own callback, or the synchronizer's while block is set: on to
\* the page's.
PassOn ==
  /\ Running("draw")
  /\ ~attached[Top.chart] \/ block
  /\ stack' = <<UserOf(Top.chart)>> \o Tail(stack)
  /\ seen' = [seen EXCEPT ![Top.chart] = win[Top.chart]]
  /\ UNCHANGED <<view, attached, block, source, thrown>> /\ NoEvent

\* The synchronizer's callback takes the flag and notes the view to copy.
StartLoop ==
  /\ Running("draw") /\ attached[Top.chart] /\ ~block
  /\ block' = TRUE
  /\ stack' = <<Frame("loop", Top.chart, 1, win[Top.chart], YAxisRange(Top.chart))>>
                \o Tail(stack)
  /\ UNCHANGED <<view, attached, notes>> /\ NoEvent

Advanced == [Top EXCEPT !.next = @ + 1]

\* Rejected variant: a chart in the right window is not redrawn.
WindowUpToDate(c) == opt[c] # Null /\ opt[c] = Top.win

\* arraysAreEqual is false of null.
UpToDate(c) ==
  /\ opt[c] # Null /\ opt[c] = Top.win
  /\ SyncRange => yopt[c] = Top.y

LoopSelf ==
  /\ Running("loop") /\ Top.next = Top.chart
  /\ stack' = <<UserOf(Top.chart), Advanced>> \o Tail(stack)
  /\ seen' = [seen EXCEPT ![Top.chart] = win[Top.chart]]
  /\ UNCHANGED <<view, attached, block, source, thrown>> /\ NoEvent

LoopSkip ==
  /\ Running("loop") /\ Top.next \in Chart \ {Top.chart}
  /\ UpToDate(Top.next)
  /\ stack' = <<Advanced>> \o Tail(stack)
  /\ UNCHANGED <<view, attached, block, notes>> /\ NoEvent

\* The options given to chart c.
GiveOptions(c) ==
  LET y == IF SyncRange THEN Top.y ELSE yopt[c]
  IN  /\ win' = [win EXCEPT ![c] = Top.win]
      /\ opt' = [opt EXCEPT ![c] = Top.win]
      /\ yopt' = [yopt EXCEPT ![c] = y]
      /\ yset' = [yset EXCEPT ![c] = y]

\* Rejected variant: goes on only when the options are equal.
LoopUpdatesAgain ==
  /\ Running("loop") /\ Top.next \in Chart \ {Top.chart}
  /\ ~UpToDate(Top.next)
  /\ GiveOptions(Top.next)
  /\ stack' = <<DrawOf(Top.next)>> \o stack
  /\ UNCHANGED <<auto, attached, block, notes>> /\ NoEvent

LoopUpdate ==
  /\ Running("loop") /\ Top.next \in Chart \ {Top.chart}
  /\ ~UpToDate(Top.next)
  /\ GiveOptions(Top.next)
  /\ stack' = <<DrawOf(Top.next), Advanced>> \o Tail(stack)
  /\ UNCHANGED <<auto, attached, block, notes>> /\ NoEvent

\* Rejected variant: does not reset the flag.
LoopEndBlocked ==
  /\ Running("loop") /\ Top.next > N
  /\ source' = Top.chart
  /\ stack' = Tail(stack)
  /\ UNCHANGED <<view, attached, block, seen, thrown>> /\ NoEvent

LoopEnd ==
  /\ Running("loop") /\ Top.next > N
  /\ block' = FALSE
  /\ source' = Top.chart
  /\ stack' = Tail(stack)
  /\ UNCHANGED <<view, attached, seen, thrown>> /\ NoEvent

\* detach gives each chart its callbacks back in two calls of updateOptions,
\* and each of them draws the chart.
DetachStep ==
  /\ Running("detach")
  /\ LET c == Top.chart IN
       IF c > N
       THEN /\ stack' = Tail(stack)
            /\ UNCHANGED attached
       ELSE /\ attached' = [attached EXCEPT ![c] = FALSE]
            /\ stack' = <<DrawOf(c),
                          IF Top.next = 0 THEN [Top EXCEPT !.next = 1]
                          ELSE [Top EXCEPT !.chart = c + 1, !.next = 0]>> \o Tail(stack)
  /\ UNCHANGED <<view, block, notes>> /\ NoEvent

(***************************************************************************)
(* The page's callback: it returns, sets a window of its own accord, or    *)
(* throws.  An exception leaves every call in progress, and the assignment *)
(* that would reset block is among what it skips.                          *)
(***************************************************************************)
UserReturns ==
  /\ Running("user")
  /\ stack' = Tail(stack)
  /\ UNCHANGED <<view, attached, block, notes>> /\ NoEvent

UserSetsWindow(c, w) ==
  /\ Running("user") /\ reentries < MaxReentry
  /\ reentries' = reentries + 1
  /\ GiveWindow(c, w)
  /\ stack' = <<DrawOf(c)>> \o stack
  /\ UNCHANGED <<yopt, auto, attached, block, notes, events>>

UserThrows ==
  /\ Running("user") /\ MayThrow
  /\ stack' = <<>>
  /\ thrown' = TRUE
  /\ UNCHANGED <<view, attached, block, seen, source>> /\ NoEvent

Step ==
  \/ PassOn \/ StartLoop \/ LoopSelf \/ LoopSkip \/ LoopUpdate \/ LoopEnd
  \/ DetachStep \/ UserReturns

Next ==
  \/ \E c \in Chart, w \in Window \cup {Null} : SetDateWindow(c, w)
  \/ \E c \in Chart, r \in YRange : Update(c, r)
  \/ \E c \in Chart, w \in Window : ZoomX(c, w)
  \/ \E c \in Chart, r \in YRange : ZoomY(c, r)
  \/ \E c \in Chart : ResetZoom(c)
  \/ Attach \/ Detach
  \/ Step
  \/ \E c \in Chart, w \in Window : UserSetsWindow(c, w)
  \/ UserThrows

Spec == Init /\ [][Next]_vars

FairSpec == Spec /\ WF_vars(Step)

-----------------------------------------------------------------------------
FrameType ==
  LET Frames(pcs, charts, nexts) ==
        [pc : pcs, chart : charts, next : nexts,
         win : Window \cup {Null}, y : YRange \cup {Null}]
  IN  Frames({"draw", "user"}, Chart, {0})
        \cup Frames({"loop"}, Chart, 1..(N + 1))
        \cup Frames({"detach"}, 1..(N + 1), {0, 1})

\* Every variable has its type.
TypeOK ==
  /\ {win, opt, seen} \subseteq [Chart -> Window \cup {Null}]
  /\ {yset, yopt} \subseteq [Chart -> YRange \cup {Null}]
  /\ auto \in [Chart -> YRange]
  /\ attached \in [Chart -> BOOLEAN]
  /\ block \in BOOLEAN /\ thrown \in BOOLEAN
  /\ stack \in Seq(FrameType)
  /\ source \in 0..N
  /\ events \in 0..MaxEvents /\ reentries \in 0..MaxReentry

Looping == {i \in 1..Len(stack) : stack[i].pc = "loop"}

\* The block flag of attachZoomHandlers: unless a callback of the page threw,
\* it is set exactly while one loop over the charts is running, and there is
\* never a second one, however the callbacks call each other.
OneLoop ==
  ~thrown => /\ \A i, j \in Looping : i = j
             /\ block <=> Looping # {}

AtRest == stack = <<>> /\ ~thrown
AllAttached == \A c \in Chart : attached[c]

ViewsAgree(c, d) ==
  /\ win[c] = win[d]
  /\ SyncRange => YAxisRange(c) = YAxisRange(d)

\* "charts are now synchronized": between events all charts show the same
\* windows, once any of them has been drawn.
Synchronized ==
  AtRest /\ AllAttached /\ source # 0 => \A c, d \in Chart : ViewsAgree(c, d)

\* What the comparison with getOption leaves of it: a chart differs from the
\* one whose view was copied last only if it was zoomed by hand since its
\* options were set, as long as the page's callbacks set no window.
OnlyStaleDiffer ==
  AtRest /\ AllAttached /\ source # 0 /\ reentries = 0 =>
    \A c \in Chart : \/ ViewsAgree(c, source)
                     \/ win[c] # opt[c] \/ yset[c] # yopt[c]

\* "call the user's drawCallback even if we are blocked": between events the
\* page has seen the window that each of its charts now shows.
PageHasSeen == AtRest => seen = win

\* Every event ends: the callbacks do not call each other for ever.
EventsEnd == (stack # <<>>) ~> (stack = <<>>)

-----------------------------------------------------------------------------
(***************************************************************************)
(* What PageHasSeen and OnlyStaleDiffer rest on.                           *)
(***************************************************************************)
\* A call in progress that will bring the page the window of chart c.
WillShow(f, c) ==
  /\ f.chart = c
  /\ f.pc = "draw" \/ (f.pc = "loop" /\ f.next <= c)

\* Only the innermost call is a draw about to begin, only the outermost is
\* detach, and a loop runs for a chart whose callback is the synchronizer's.
ProperStack ==
  \A i \in 1..Len(stack) :
    /\ stack[i].pc = "draw" => i = 1
    /\ stack[i].pc = "detach" => i = Len(stack)
    /\ stack[i].pc = "loop" => attached[stack[i].chart]

\* The page has seen the window of every chart, or will; or an exception came
\* first, and then detach draws the chart.
WillBeSeen ==
  \A c \in Chart :
    \/ seen[c] = win[c]
    \/ \E i \in 1..Len(stack) : WillShow(stack[i], c)
    \/ thrown /\ attached[c]

\* The view of chart c is w and y, and the charts before next have got it.
Copied(c, next, w, y) ==
  /\ win[c] = w /\ YAxisRange(c) = y
  /\ \A d \in Chart \ {c} : d < next => opt[d] = w /\ (SyncRange => yopt[d] = y)

CopiedBy(f) == f.pc = "loop" /\ Copied(f.chart, f.next, f.win, f.y)

\* As long as the page's callbacks neither throw nor set windows, at most two
\* calls are in progress, and a loop has given its options to the charts that
\* it has passed.
LoopCopies ==
  ~thrown /\ reentries = 0 /\ AllAttached =>
    \/ /\ stack = <<>>
       /\ source # 0 => Copied(source, N + 1, win[source], YAxisRange(source))
    \/ \E f \in FrameType :
         /\ stack = <<f>>
         /\ f.pc = "draw" \/ (f.pc = "detach" /\ f.chart = 1) \/ CopiedBy(f)
    \/ \E f, g \in FrameType :
         stack = <<g, f>> /\ g.pc \in {"draw", "user"} /\ CopiedBy(f)

=============================================================================
