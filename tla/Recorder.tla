------------------------------ MODULE Recorder ------------------------------
(***************************************************************************)
(* The recorder of package database: callers queue objects in a buffered   *)
(* channel (Insert, Save, and InsertValue, which is an Insert), and the    *)
(* goroutine RunWriter collects them and writes what it has collected in   *)
(* one transaction at every tick.                                          *)
(*                                                                         *)
(* The set Backend.seen is left out: nothing reads it but the code that    *)
(* adds to it.  The table outlives the process: a crash loses what is in   *)
(* memory, and a restart opens the same file.                              *)
(***************************************************************************)
EXTENDS Naturals, SequencesExt

CONSTANTS
  Key, Value, Absent,
  BufSize,      \* capacity of the channel objects (100 in Get)
  MaxAccepted,  \* bound: objects that are queued and not lost
  MaxCrashes    \* bound: number of crashes

VARIABLES
  objects,    \* the buffered channel
  rows,       \* RunWriter: collected, not yet written
  table,      \* the database file
  writer,     \* "running", or "returned" after a failed transaction
  log,        \* history: every object accepted, less what a crash has lost
  durable,    \* history: how much of log has been written
  crashes     \* number of crashes so far

vars == <<objects, rows, table, writer, log, durable, crashes>>

\* The store this recorder implements: what it can still write is what it
\* has collected, and what it has yet to collect.
S == INSTANCE Store WITH
       content <- table,
       pending <- IF writer = "running" THEN rows \o objects ELSE <<>>,
       up      <- (writer = "running")

ASSUME RecorderAssumption ==
  /\ Absent \notin Value
  /\ BufSize \in Nat \ {0}
  /\ MaxAccepted \in Nat /\ MaxCrashes \in Nat

Init ==
  /\ objects = <<>> /\ rows = <<>>
  /\ table = S!EmptyTable
  /\ writer = "running"
  /\ log = <<>> /\ durable = 0 /\ crashes = 0

-----------------------------------------------------------------------------
\* Rejected variant: one object more than the buffer holds.
QueueBeyond(op) ==
  /\ Len(log) < MaxAccepted
  /\ Len(objects) <= BufSize
  /\ objects' = Append(objects, op)
  /\ log' = Append(log, op)
  /\ UNCHANGED <<rows, table, writer, durable, crashes>>

\* b.objects <- object{...} blocks while the buffer is full.
Queue(op) ==
  /\ Len(log) < MaxAccepted
  /\ Len(objects) < BufSize
  /\ objects' = Append(objects, op)
  /\ log' = Append(log, op)
  /\ UNCHANGED <<rows, table, writer, durable, crashes>>

Insert(k, v) == Queue([kind |-> "insert", key |-> k, value |-> v])
Save(k, v)   == Queue([kind |-> "save", key |-> k, value |-> v])

\* One sample of a series: an insert, whatever the table holds.
InsertValue(k, v) == Insert(k, v)

-----------------------------------------------------------------------------
(***************************************************************************)
(* RunWriter.  Its select takes either case when both are ready; a tick    *)
(* with nothing collected changes nothing and is not an action.            *)
(***************************************************************************)
Collect ==
  /\ writer = "running"
  /\ objects # <<>>
  /\ rows' = Append(rows, Head(objects))
  /\ objects' = Tail(objects)
  /\ UNCHANGED <<table, writer, log, durable, crashes>>

\* Rejected variants: the rows are kept after they are written; only the
\* first of them is written.
FlushKeepingRows ==
  /\ writer = "running"
  /\ rows # <<>> /\ durable + Len(rows) <= Len(log)
  /\ table' = S!Replay(table, rows)
  /\ durable' = durable + Len(rows)
  /\ UNCHANGED <<objects, rows, writer, log, crashes>>

FlushFirst ==
  /\ writer = "running"
  /\ rows # <<>>
  /\ table' = S!Apply(table, Head(rows))
  /\ durable' = durable + 1
  /\ rows' = <<>>
  /\ UNCHANGED <<objects, writer, log, crashes>>

Flush ==
  /\ writer = "running"
  /\ rows # <<>>
  /\ table' = S!Replay(table, rows)
  /\ durable' = durable + Len(rows)
  /\ rows' = <<>>
  /\ UNCHANGED <<objects, writer, log, crashes>>

\* Rejected variant: the rows before the one that failed stay.
FlushFailsHalfway ==
  /\ writer = "running"
  /\ rows # <<>>
  /\ table' = S!Apply(table, Head(rows))
  /\ rows' = <<>>
  /\ writer' = "returned"
  /\ UNCHANGED <<objects, log, durable, crashes>>

\* The transaction is rolled back; the goroutine reports the error and
\* returns, with the channel still there for the callers to fill.
FlushFails ==
  /\ writer = "running"
  /\ rows # <<>>
  /\ rows' = <<>>
  /\ writer' = "returned"
  /\ UNCHANGED <<objects, table, log, durable, crashes>>

\* The end of the process and a new one.  With a nil errCh a failed
\* transaction ends the process too (writer.go:69-71).
Crash ==
  /\ crashes < MaxCrashes
  /\ crashes' = crashes + 1
  /\ objects' = <<>> /\ rows' = <<>>
  /\ writer' = "running"
  /\ log' = SubSeq(log, 1, durable)
  /\ UNCHANGED <<table, durable>>

RunWriter == Collect \/ Flush \/ FlushFails

Next ==
  \/ \E k \in Key, v \in Value : InsertValue(k, v) \/ Save(k, v)
  \/ RunWriter
  \/ Crash

Spec == Init /\ [][Next]_vars

\* The goroutine runs, and its select, which chooses at random among the
\* ready cases, does not ignore one of them for ever.
FairSpec == Spec /\ WF_vars(Collect) /\ WF_vars(Flush \/ FlushFails)

-----------------------------------------------------------------------------
(***************************************************************************)
(* Properties.                                                             *)
(***************************************************************************)
PipelineTypeOK ==
  /\ objects \in Seq(S!Operation) /\ Len(objects) <= BufSize
  /\ rows \in Seq(S!Operation)
  /\ writer \in {"running", "returned"}
  /\ log \in Seq(S!Operation)
  /\ durable \in 0..Len(log)
  /\ crashes \in 0..MaxCrashes

TypeOK == PipelineTypeOK /\ table \in S!Table

\* As long as RunWriter has not returned, no object is lost, reordered or
\* doubled on its way: what is accepted and not yet written is exactly what
\* the writer holds followed by what waits in the channel.
PipelineIntact ==
  writer = "running" => SubSeq(log, durable + 1, Len(log)) = rows \o objects

\* What the table holds for a key, told without replaying anything: the
\* value of the last save among the objects written, and failing any save
\* that of the first insert.  A later insert never changes a row.
RowOf(k) ==
  LET Written(kind) == {i \in 1..durable : log[i].key = k /\ log[i].kind = kind}
  IN  CASE Written("save") # {}   -> log[Max(Written("save"))].value
        [] Written("save") = {} /\ Written("insert") # {}
                                  -> log[Min(Written("insert"))].value
        [] OTHER                  -> Absent

TableHoldsWritten == \A k \in Key : table[k] = RowOf(k)

\* Every object that is accepted is written sooner or later, however fast
\* others follow, unless the transaction that holds it fails, the writer
\* has returned, or the process ends.
EventuallyWritten ==
  \A n \in 1..MaxAccepted :
    Len(log) >= n ~> durable >= n \/ writer = "returned" \/ Len(log) < n

\* The recorder implements the store.
ImplementsStore == S!Spec
=============================================================================
