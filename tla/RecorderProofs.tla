--------------------------- MODULE RecorderProofs ---------------------------
(***************************************************************************)
(* Theorems about the recorder, for every set of keys and values, every    *)
(* buffer size and every bound: its types, that the pipeline loses and     *)
(* reorders nothing, that it implements the store, and what the table      *)
(* holds.                                                                  *)
(***************************************************************************)
EXTENDS Recorder, Integers, Lemmas

USE RecorderAssumption

Ops == S!Operation

-----------------------------------------------------------------------------
(***************************************************************************)
(* Sequences.                                                              *)
(***************************************************************************)

\* Moving the head of the second sequence to the end of the first.
LEMMA MoveHead ==
  ASSUME NEW X, NEW s \in Seq(X), NEW t \in Seq(X), t # <<>>
  PROVE  /\ Append(s, Head(t)) \in Seq(X)
         /\ Tail(t) \in Seq(X)
         /\ Append(s, Head(t)) \o Tail(t) = s \o t
<1>1. /\ Head(t) \in X /\ Tail(t) \in Seq(X)
      /\ Len(Tail(t)) = Len(t) - 1
      /\ \A i \in 1..Len(Tail(t)) : Tail(t)[i] = t[i + 1]
  BY HeadTailProperties
<1>2. Append(s, Head(t)) \in Seq(X)
  BY <1>1
<1>3. Len(Append(s, Head(t)) \o Tail(t)) = Len(s \o t)
  BY <1>1, <1>2
<1>4. ASSUME NEW i \in 1..Len(s \o t)
      PROVE  (Append(s, Head(t)) \o Tail(t))[i] = (s \o t)[i]
  BY <1>1, <1>2
<1>5. s \o t \in Seq(X) /\ Append(s, Head(t)) \o Tail(t) \in Seq(X)
  BY <1>1, <1>2, ConcatProperties
<1> QED BY <1>1, <1>2, <1>3, <1>4, <1>5, SeqEqual

\* An append to the second of two sequences is one to their concatenation.
LEMMA AppendToSecond ==
  ASSUME NEW X, NEW s \in Seq(X), NEW t \in Seq(X), NEW e \in X
  PROVE  s \o Append(t, e) = Append(s \o t, e)
<1>1. s \o t \in Seq(X) /\ <<e>> \in Seq(X)
  BY ConcatProperties
<1>2. Append(s \o t, e) = (s \o t) \o <<e>>
  BY <1>1, AppendIsConcat
<1>3. Append(t, e) = t \o <<e>>
  BY AppendIsConcat
<1> QED BY <1>1, <1>2, <1>3, ConcatAssociative

\* The two parts of a concatenation.
LEMMA SplitConcat ==
  ASSUME NEW X, NEW s \in Seq(X), NEW t \in Seq(X)
  PROVE  /\ SubSeq(s \o t, 1, Len(s)) = s
         /\ SubSeq(s \o t, Len(s) + 1, Len(s \o t)) = t
<1>1. s \o t \in Seq(X) /\ Len(s \o t) = Len(s) + Len(t)
      /\ Len(s) \in Nat /\ Len(t) \in Nat
  BY ConcatProperties, LenProperties
<1>2. SubSeq(s \o t, 1, Len(s)) = s
  <2>1. /\ SubSeq(s \o t, 1, Len(s)) \in Seq(X)
        /\ Len(SubSeq(s \o t, 1, Len(s))) = Len(s)
    BY <1>1
  <2>2. ASSUME NEW i \in 1..Len(s) PROVE SubSeq(s \o t, 1, Len(s))[i] = s[i]
    BY <1>1
  <2> QED BY <2>1, <2>2, SeqEqual
<1>3. SubSeq(s \o t, Len(s) + 1, Len(s \o t)) = t
  <2> DEFINE u == SubSeq(s \o t, Len(s) + 1, Len(s \o t))
  <2>1. u \in Seq(X) /\ Len(u) = Len(t)
    BY <1>1
  <2>2. ASSUME NEW i \in 1..Len(t) PROVE u[i] = t[i]
    BY <1>1
  <2> QED BY <2>1, <2>2, SeqEqual
<1> QED BY <1>2, <1>3

\* What is left of a sequence after its first n elements.
Rest(s, n) == SubSeq(s, n + 1, Len(s))

LEMMA RestProperties ==
  ASSUME NEW X, NEW s \in Seq(X), NEW n \in 0..Len(s)
  PROVE  /\ Rest(s, n) \in Seq(X)
         /\ Len(Rest(s, n)) = Len(s) - n
         /\ \A i \in 1..(Len(s) - n) : Rest(s, n)[i] = s[n + i]
<1>1. Len(s) \in Nat
  BY LenProperties
<1>2. \A i \in (n + 1)..Len(s) : s[i] \in X
  BY <1>1, ElementOfSeq
<1>3. /\ SubSeq(s, n + 1, Len(s)) \in Seq(X)
      /\ Len(SubSeq(s, n + 1, Len(s)))
           = IF n + 1 <= Len(s) THEN Len(s) - (n + 1) + 1 ELSE 0
      /\ \A i \in 1..(Len(s) - (n + 1) + 1) :
           SubSeq(s, n + 1, Len(s))[i] = s[(n + 1) + i - 1]
  BY <1>1, <1>2, SubSeqProperties
<1> QED BY <1>1, <1>3 DEF Rest

\* An object appended to the whole is appended to the rest.
LEMMA RestOfAppend ==
  ASSUME NEW X, NEW s \in Seq(X), NEW n \in 0..Len(s), NEW e \in X
  PROVE  Rest(Append(s, e), n) = Append(Rest(s, n), e)
<1>1. /\ Append(s, e) \in Seq(X) /\ Len(Append(s, e)) = Len(s) + 1
      /\ \A i \in 1..Len(s) : Append(s, e)[i] = s[i]
      /\ Append(s, e)[Len(s) + 1] = e
      /\ Len(s) \in Nat
  BY AppendProperties, LenProperties
<1>2. /\ Rest(s, n) \in Seq(X) /\ Len(Rest(s, n)) = Len(s) - n
      /\ \A i \in 1..(Len(s) - n) : Rest(s, n)[i] = s[n + i]
  BY RestProperties
<1>3. n \in 0..Len(Append(s, e))
  BY <1>1
<1>4. /\ Rest(Append(s, e), n) \in Seq(X)
      /\ Len(Rest(Append(s, e), n)) = Len(s) + 1 - n
      /\ \A i \in 1..(Len(s) + 1 - n) :
           Rest(Append(s, e), n)[i] = Append(s, e)[n + i]
  <2> DEFINE a == Append(s, e)
  <2>1. /\ Rest(a, n) \in Seq(X) /\ Len(Rest(a, n)) = Len(a) - n
        /\ \A i \in 1..(Len(a) - n) : Rest(a, n)[i] = a[n + i]
    <3> HIDE DEF a
    <3>1. a \in Seq(X) /\ n \in 0..Len(a)
      BY <1>1, <1>3 DEF a
    <3> QED BY <3>1, RestProperties
  <2>2. Len(a) - n = Len(s) + 1 - n
    BY <1>1
  <2> QED BY <2>1, <2>2
<1>5. /\ Append(Rest(s, n), e) \in Seq(X)
      /\ Len(Append(Rest(s, n), e)) = Len(s) + 1 - n
      /\ \A i \in 1..(Len(s) - n) : Append(Rest(s, n), e)[i] = s[n + i]
      /\ Append(Rest(s, n), e)[Len(s) - n + 1] = e
  BY <1>1, <1>2, AppendProperties
<1>6. ASSUME NEW i \in 1..(Len(s) + 1 - n)
      PROVE  Rest(Append(s, e), n)[i] = Append(Rest(s, n), e)[i]
  <2>1. Rest(Append(s, e), n)[i] = Append(s, e)[n + i]
    BY <1>4
  <2>2. CASE i = Len(s) - n + 1
    <3>1. n + i = Len(s) + 1
      BY <2>2, <1>1
    <3> QED BY <3>1, <2>1, <2>2, <1>1, <1>5
  <2>3. CASE i \in 1..(Len(s) - n)
    <3>1. n + i \in 1..Len(s)
      BY <2>3, <1>1
    <3> QED BY <3>1, <2>1, <2>3, <1>1, <1>5
  <2>4. i = Len(s) - n + 1 \/ i \in 1..(Len(s) - n)
    <3>1. n \in Int /\ Len(s) \in Int /\ i \in Int /\ 1 <= i /\ i <= Len(s) + 1 - n
      BY <1>1
    <3> QED BY <3>1
  <2> QED BY <2>2, <2>3, <2>4
<1> QED BY <1>4, <1>5, <1>6, SeqEqual

\* Taking from the rest takes that much more from the whole.
LEMMA RestOfRest ==
  ASSUME NEW X, NEW s \in Seq(X), NEW n \in 0..Len(s), NEW m \in 0..(Len(s) - n)
  PROVE  Rest(Rest(s, n), m) = Rest(s, n + m)
<1>0. Len(s) \in Nat /\ n \in Nat /\ m \in Nat
  BY LenProperties
<1>1. /\ Rest(s, n) \in Seq(X) /\ Len(Rest(s, n)) = Len(s) - n
      /\ \A i \in 1..(Len(s) - n) : Rest(s, n)[i] = s[n + i]
  BY RestProperties
<1>2. n + m \in 0..Len(s) /\ m \in 0..Len(Rest(s, n))
  BY <1>0, <1>1
<1>3. /\ Rest(s, n + m) \in Seq(X) /\ Len(Rest(s, n + m)) = Len(s) - (n + m)
      /\ \A i \in 1..(Len(s) - (n + m)) : Rest(s, n + m)[i] = s[n + m + i]
  BY <1>2, RestProperties
<1>4. /\ Rest(Rest(s, n), m) \in Seq(X)
      /\ Len(Rest(Rest(s, n), m)) = Len(Rest(s, n)) - m
      /\ \A i \in 1..(Len(Rest(s, n)) - m) :
           Rest(Rest(s, n), m)[i] = Rest(s, n)[m + i]
  BY <1>1, <1>2, RestProperties
<1>5. ASSUME NEW i \in 1..(Len(s) - (n + m))
      PROVE  Rest(Rest(s, n), m)[i] = Rest(s, n + m)[i]
  <2>1. m + i \in 1..(Len(s) - n) /\ n + (m + i) = n + m + i
    BY <1>0
  <2>2. Rest(s, n + m)[i] = s[n + m + i]
    BY <1>3
  <2>3. i \in 1..(Len(Rest(s, n)) - m)
    BY <1>0, <1>1
  <2>4. Rest(Rest(s, n), m)[i] = Rest(s, n)[m + i]
    BY <2>3, <1>4
  <2>5. Rest(s, n)[m + i] = s[n + (m + i)]
    BY <2>1, <1>1
  <2> QED BY <2>1, <2>2, <2>4, <2>5
<1> QED BY <1>0, <1>1, <1>3, <1>4, <1>5, SeqEqual

-----------------------------------------------------------------------------
(***************************************************************************)
(* The inductive invariant.  PipelineIntact is kept by a transaction       *)
(* because it says which part of log the rows are; the bound on durable    *)
(* needs it.  What the table holds comes further down: nothing here        *)
(* depends on it.                                                          *)
(***************************************************************************)
IInv == PipelineTypeOK /\ PipelineIntact

LEMMA InitIInv == Init => IInv
<1> SUFFICES ASSUME Init PROVE IInv
  OBVIOUS
<1>1. <<>> \in Seq(Ops) /\ Len(<<>>) = 0
  BY EmptySeq
<1>2. PipelineTypeOK
  BY <1>1 DEF Init, PipelineTypeOK, Ops
<1>3. SubSeq(log, durable + 1, Len(log)) = <<>>
  BY <1>1, SubSeqEmpty DEF Init
<1>4. rows \o objects = <<>>
  BY <1>1, ConcatEmptySeq DEF Init
<1> QED BY <1>2, <1>3, <1>4 DEF IInv, PipelineIntact

LEMMA QueueIInv ==
  ASSUME IInv, NEW op \in Ops, Queue(op)
  PROVE  IInv'
<1> USE DEF IInv
<1>1. /\ objects \in Seq(Ops) /\ rows \in Seq(Ops) /\ log \in Seq(Ops)
      /\ durable \in 0..Len(log)
  BY DEF PipelineTypeOK, Ops
<1>2. /\ objects' = Append(objects, op) /\ log' = Append(log, op)
      /\ UNCHANGED <<rows, writer, durable, crashes>>
  BY DEF Queue
<1>3. /\ objects' \in Seq(Ops) /\ Len(objects') = Len(objects) + 1
      /\ log' \in Seq(Ops) /\ Len(log') = Len(log) + 1
      /\ Len(log) \in Nat /\ Len(objects) \in Nat
  BY <1>1, <1>2, AppendProperties, LenProperties
<1>4. PipelineTypeOK'
  <2>1. Len(objects) < BufSize
    BY DEF Queue
  <2> QED BY <2>1, <1>1, <1>2, <1>3 DEF PipelineTypeOK, Ops
<1>5. ASSUME writer = "running"
      PROVE  Rest(log', durable') = rows' \o objects'
  <2>1. Rest(log, durable) = rows \o objects
    BY <1>5 DEF PipelineIntact, Rest
  <2>2. Rest(log', durable') = Append(rows \o objects, op)
    <3>1. Rest(Append(log, op), durable) = Append(Rest(log, durable), op)
      BY <1>1, RestOfAppend
    <3> QED BY <3>1, <2>1, <1>2
  <2>3. rows \o Append(objects, op) = Append(rows \o objects, op)
    BY <1>1, AppendToSecond
  <2> QED BY <2>2, <2>3, <1>2
<1> QED BY <1>2, <1>4, <1>5 DEF PipelineIntact, Rest

LEMMA CollectIInv ==
  ASSUME IInv, Collect
  PROVE  IInv'
<1> USE DEF IInv
<1>1. /\ objects \in Seq(Ops) /\ rows \in Seq(Ops) /\ objects # <<>>
  BY DEF PipelineTypeOK, Ops, Collect
<1>2. /\ rows' = Append(rows, Head(objects)) /\ objects' = Tail(objects)
      /\ UNCHANGED <<writer, log, durable, crashes>>
  BY DEF Collect
<1>3. rows' \in Seq(Ops) /\ objects' \in Seq(Ops) /\ rows' \o objects' = rows \o objects
  BY <1>1, <1>2, MoveHead
<1>4. Len(objects') = Len(objects) - 1 /\ Len(objects) \in Nat
  BY <1>1, <1>2, HeadTailProperties, LenProperties
<1>5. PipelineTypeOK'
  BY <1>2, <1>3, <1>4 DEF PipelineTypeOK, Ops
<1>6. PipelineIntact'
  BY <1>2, <1>3 DEF PipelineIntact
<1> QED BY <1>5, <1>6

LEMMA FlushIInv ==
  ASSUME IInv, Flush
  PROVE  IInv'
<1> USE DEF IInv
<1>1. /\ objects \in Seq(Ops) /\ rows \in Seq(Ops) /\ log \in Seq(Ops)
      /\ durable \in 0..Len(log) /\ writer = "running"
      /\ Len(log) \in Nat /\ Len(rows) \in Nat /\ Len(objects) \in Nat
  BY LenProperties DEF PipelineTypeOK, Ops, Flush
<1>2. /\ rows' = <<>> /\ durable' = durable + Len(rows)
      /\ UNCHANGED <<objects, writer, log, crashes>>
  BY DEF Flush
<1>3. Rest(log, durable) = rows \o objects
  BY <1>1 DEF PipelineIntact, Rest
<1>4. Len(log) - durable = Len(rows) + Len(objects)
  <2>1. Len(Rest(log, durable)) = Len(log) - durable
    BY <1>1, RestProperties
  <2>2. Len(rows \o objects) = Len(rows) + Len(objects)
    BY <1>1, ConcatProperties
  <2> QED BY <2>1, <2>2, <1>3
<1>5. PipelineTypeOK'
  <2>1. durable' \in 0..Len(log)
    BY <1>1, <1>2, <1>4
  <2>2. rows' \in Seq(Ops)
    BY <1>2, EmptySeq
  <2> QED BY <2>1, <2>2, <1>2 DEF PipelineTypeOK, Ops
<1>6. Rest(log', durable') = rows' \o objects'
  <2>1. Rest(log, durable + Len(rows)) = Rest(rows \o objects, Len(rows))
    <3>1. Len(rows) \in 0..(Len(log) - durable)
      BY <1>1, <1>4
    <3> QED BY <3>1, <1>1, <1>3, RestOfRest
  <2>2. Rest(rows \o objects, Len(rows)) = objects
    BY <1>1, SplitConcat DEF Rest
  <2>3. <<>> \o objects = objects
    BY <1>1, ConcatEmptySeq
  <2> QED BY <2>1, <2>2, <2>3, <1>2
<1> QED BY <1>5, <1>6 DEF PipelineIntact, Rest

LEMMA FlushFailsIInv ==
  ASSUME IInv, FlushFails
  PROVE  IInv'
<1>1. rows' = <<>> /\ writer' = "returned" /\ UNCHANGED <<objects, log, durable, crashes>>
  BY DEF FlushFails
<1>2. rows' \in Seq(Ops)
  BY <1>1, EmptySeq
<1> QED BY <1>1, <1>2 DEF IInv, PipelineTypeOK, PipelineIntact, Ops

LEMMA CrashIInv ==
  ASSUME IInv, Crash
  PROVE  IInv'
<1> USE DEF IInv
<1>1. /\ log \in Seq(Ops) /\ durable \in 0..Len(log) /\ Len(log) \in Nat
      /\ durable \in Nat
  BY LenProperties DEF PipelineTypeOK, Ops
<1>2. /\ objects' = <<>> /\ rows' = <<>> /\ writer' = "running"
      /\ log' = SubSeq(log, 1, durable) /\ durable' = durable
      /\ crashes < MaxCrashes /\ crashes' = crashes + 1
  BY DEF Crash
<1>3. <<>> \in Seq(Ops) /\ Len(<<>>) = 0
  BY EmptySeq
<1>4. log' \in Seq(Ops) /\ Len(log') = durable
  <2>1. \A i \in 1..durable : log[i] \in Ops
    BY <1>1, ElementOfSeq
  <2>2. /\ SubSeq(log, 1, durable) \in Seq(Ops)
        /\ Len(SubSeq(log, 1, durable)) = IF 1 <= durable THEN durable - 1 + 1 ELSE 0
    BY <2>1, <1>1, SubSeqProperties
  <2> QED BY <2>2, <1>1, <1>2
<1>5. PipelineTypeOK'
  BY <1>1, <1>2, <1>3, <1>4 DEF PipelineTypeOK, Ops
<1>6. SubSeq(log', durable' + 1, Len(log')) = <<>>
  BY <1>1, <1>2, <1>4, SubSeqEmpty
<1>7. rows' \o objects' = <<>>
  BY <1>2, <1>3, ConcatEmptySeq
<1> QED BY <1>5, <1>6, <1>7 DEF PipelineIntact

LEMMA NextIInv == IInv /\ [Next]_vars => IInv'
<1> SUFFICES ASSUME IInv, [Next]_vars PROVE IInv'
  OBVIOUS
<1>1. ASSUME NEW k \in Key, NEW v \in Value, InsertValue(k, v) \/ Save(k, v)
      PROVE  IInv'
  <2>1. /\ [kind |-> "insert", key |-> k, value |-> v] \in Ops
        /\ [kind |-> "save", key |-> k, value |-> v] \in Ops
    BY DEF Ops, S!Operation
  <2>2. CASE InsertValue(k, v)
    BY <2>1, <2>2, QueueIInv DEF InsertValue, Insert
  <2>3. CASE Save(k, v)
    BY <2>1, <2>3, QueueIInv DEF Save
  <2> QED BY <1>1, <2>2, <2>3
<1>2. CASE Collect
  BY <1>2, CollectIInv
<1>3. CASE Flush
  BY <1>3, FlushIInv
<1>4. CASE FlushFails
  BY <1>4, FlushFailsIInv
<1>5. CASE Crash
  BY <1>5, CrashIInv
<1>6. CASE UNCHANGED vars
  BY <1>6 DEF vars, IInv, PipelineTypeOK, PipelineIntact
<1> QED BY <1>1, <1>2, <1>3, <1>4, <1>5, <1>6 DEF Next, RunWriter

\* The three facts together, for the theorems below.
THEOREM Invariance == Spec => []IInv
<1> QED BY InitIInv, NextIInv, PTL DEF Spec

\* What the recorder has accepted and not written is, as long as its
\* goroutine runs, exactly the collected rows followed by the channel: no
\* object is lost, reordered or doubled (writer.go:18-77).
THEOREM Pipeline == Spec => []PipelineIntact
<1> QED BY Invariance, PTL DEF IInv

\* The types of all variables but the table, the bound of the channel and
\* that no more objects are written than were accepted.
THEOREM PipelineTypeCorrectness == Spec => []PipelineTypeOK
<1> QED BY Invariance, PTL DEF IInv

-----------------------------------------------------------------------------
(***************************************************************************)
(* Refinement: every step of the recorder is a step of the store or        *)
(* changes nothing the store shows.                                        *)
(***************************************************************************)
LEMMA InitRefines == Init => S!Init
<1> SUFFICES ASSUME Init PROVE S!Init
  OBVIOUS
<1>1. <<>> \in Seq(Ops)
  BY EmptySeq
<1>2. rows \o objects = <<>>
  BY <1>1, ConcatEmptySeq DEF Init
<1> QED BY <1>2 DEF Init, S!Init

LEMMA QueueRefines ==
  ASSUME IInv, NEW op \in Ops, Queue(op)
  PROVE  [S!Next]_(S!vars)
<1>1. /\ objects \in Seq(Ops) /\ rows \in Seq(Ops)
  BY DEF IInv, PipelineTypeOK, Ops
<1>2. /\ objects' = Append(objects, op) /\ UNCHANGED <<rows, table, writer>>
  BY DEF Queue
<1>3. CASE writer = "running"
  <2>1. rows \o Append(objects, op) = Append(rows \o objects, op)
    BY <1>1, AppendToSecond
  <2>2. S!Accept(op)
    BY <2>1, <1>2, <1>3 DEF S!Accept
  <2> QED BY <2>2 DEF S!Next, Ops
<1>4. CASE writer # "running"
  BY <1>2, <1>4 DEF S!vars
<1> QED BY <1>3, <1>4

LEMMA CollectRefines ==
  ASSUME IInv, Collect
  PROVE  [S!Next]_(S!vars)
<1>1. rows' \o objects' = rows \o objects
  <2>1. /\ objects \in Seq(Ops) /\ rows \in Seq(Ops) /\ objects # <<>>
    BY DEF IInv, PipelineTypeOK, Ops, Collect
  <2> QED BY <2>1, MoveHead DEF Collect
<1> QED BY <1>1 DEF S!vars, Collect

LEMMA FlushRefines ==
  ASSUME IInv, Flush
  PROVE  [S!Next]_(S!vars)
<1>1. /\ objects \in Seq(Ops) /\ rows \in Seq(Ops) /\ rows # <<>>
      /\ Len(rows) \in Nat /\ Len(objects) \in Nat
  BY LenProperties DEF IInv, PipelineTypeOK, Ops, Flush
<1>2. /\ SubSeq(rows \o objects, 1, Len(rows)) = rows
      /\ SubSeq(rows \o objects, Len(rows) + 1, Len(rows \o objects)) = objects
  BY <1>1, SplitConcat
<1>3. <<>> \o objects = objects
  BY <1>1, ConcatEmptySeq
<1>4. Len(rows) \in 1..Len(rows \o objects)
  <2>1. Len(rows \o objects) = Len(rows) + Len(objects)
    BY <1>1, ConcatProperties
  <2>2. Len(rows) # 0
    BY <1>1, EmptySeq
  <2> QED BY <2>1, <2>2, <1>1
<1>5. S!Commit(Len(rows))
  BY <1>2, <1>3 DEF Flush, S!Commit
<1>6. S!Next
  BY <1>4, <1>5 DEF S!Next, Flush
<1> QED BY <1>6

LEMMA FlushFailsRefines ==
  ASSUME FlushFails
  PROVE  [S!Next]_(S!vars)
<1>1. S!Fail
  BY DEF FlushFails, S!Fail
<1> QED BY <1>1 DEF S!Next

LEMMA CrashRefines ==
  ASSUME Crash
  PROVE  [S!Next]_(S!vars)
<1>1. <<>> \o <<>> = <<>>
  <2>1. <<>> \in Seq(Ops)
    BY EmptySeq
  <2> QED BY <2>1, ConcatEmptySeq
<1>2. S!Restart
  BY <1>1 DEF Crash, S!Restart
<1> QED BY <1>2 DEF S!Next

LEMMA NextRefines == IInv /\ [Next]_vars => [S!Next]_(S!vars)
<1> SUFFICES ASSUME IInv, [Next]_vars PROVE [S!Next]_(S!vars)
  OBVIOUS
<1>1. ASSUME NEW k \in Key, NEW v \in Value, InsertValue(k, v) \/ Save(k, v)
      PROVE  [S!Next]_(S!vars)
  <2>1. /\ [kind |-> "insert", key |-> k, value |-> v] \in Ops
        /\ [kind |-> "save", key |-> k, value |-> v] \in Ops
    BY DEF Ops, S!Operation
  <2>2. CASE InsertValue(k, v)
    BY <2>1, <2>2, QueueRefines DEF InsertValue, Insert
  <2>3. CASE Save(k, v)
    BY <2>1, <2>3, QueueRefines DEF Save
  <2> QED BY <1>1, <2>2, <2>3
<1>2. CASE Collect
  BY <1>2, CollectRefines
<1>3. CASE Flush
  BY <1>3, FlushRefines
<1>4. CASE FlushFails
  BY <1>4, FlushFailsRefines
<1>5. CASE Crash
  BY <1>5, CrashRefines
<1>6. CASE UNCHANGED vars
  BY <1>6 DEF vars, S!vars
<1> QED BY <1>1, <1>2, <1>3, <1>4, <1>5, <1>6 DEF Next, RunWriter

\* Recording implements the store: whatever a tick writes is the objects
\* that were accepted first, in their order, and a failed transaction or a
\* crash forgets all of the others.
THEOREM Implementation == Spec => ImplementsStore
<1> QED BY InitRefines, NextRefines, Invariance, PTL DEF Spec, ImplementsStore, S!Spec

-----------------------------------------------------------------------------
(***************************************************************************)
(* What the table holds.  A transaction is a fold over the rows; its       *)
(* states are the tables after the first, the second, ... operation, and   *)
(* RowOf follows the operations one by one.                                *)
(***************************************************************************)
\* An operation makes a table of a table.
LEMMA ApplyType ==
  ASSUME NEW t \in S!Table, NEW op \in Ops
  PROVE  S!Apply(t, op) \in S!Table
  BY DEF S!Apply, S!Table, S!Operation, Ops

\* A replay applies the operations one after the other, from the first on.
LEMMA ReplaySteps ==
  ASSUME NEW t \in S!Table, NEW ops \in Seq(Ops)
  PROVE  \E g \in [0..Len(ops) -> S!Table] :
           /\ g[0] = t
           /\ \A k \in 1..Len(ops) : g[k] = S!Apply(g[k - 1], ops[k])
           /\ g[Len(ops)] = S!Replay(t, ops)
<1> DEFINE n == Len(ops)
           F == [p \in S!Table \X (1..n) |-> S!Apply(p[1], ops[p[2]])]
           Eq(f) == f = [s \in SUBSET (DOMAIN ops) |->
                           IF s = {} THEN t
                           ELSE S!Apply(f[s \ {S!Max(s)}], ops[S!Max(s)])]
           h == CHOOSE f : Eq(f)
<1>0. n \in Nat /\ DOMAIN ops = 1..n
  BY LenProperties
<1>1. F \in [S!Table \X (1..n) -> S!Table]
  <2>1. ASSUME NEW p \in S!Table \X (1..n) PROVE S!Apply(p[1], ops[p[2]]) \in S!Table
    BY ApplyType, ElementOfSeq
  <2> QED BY <2>1
<1>2. PICK f \in [SUBSET (1..n) -> S!Table] : Unfolds(f, n, t, F)
  <2> DEFINE V == S!Table
  <2>1. n \in Nat /\ t \in V /\ F \in [V \X (1..n) -> V]
    BY <1>0, <1>1
  <2> HIDE DEF F, n, V, h, Eq
  <2>2. \E f \in [SUBSET (1..n) -> V] : Unfolds(f, n, t, F)
    BY <2>1, FoldExists
  <2> QED BY <2>2 DEF V
<1>3. Eq(f)
  <2>1. ASSUME NEW s \in SUBSET (1..n), s # {}
        PROVE  /\ F[<<f[s \ {Max(s)}], Max(s)>>] = S!Apply(f[s \ {Max(s)}], ops[Max(s)])
    <3>1. Max(s) \in s
      <4>1. s \subseteq Nat /\ \A x \in s : x <= n
        BY <1>0
      <4> HIDE DEF n
      <4> QED BY <1>0, <2>1, <4>1, GreatestNumber
    <3> QED BY <3>1
  <2>2. \A s : Max(s) = S!Max(s)
    BY DEF Max, S!Max
  <2> QED BY <1>0, <1>2, <2>1, <2>2 DEF Unfolds
<1>4. Eq(h)
  <2> HIDE DEF Eq
  <2> QED BY <1>3
<1>5. S!Replay(t, ops) = h[DOMAIN ops]
  BY DEF S!Replay, S!FoldLeft, S!MapThenFoldSet
<1>6. /\ h[1..0] = t
      /\ \A k \in 1..n : h[1..k] = S!Apply(h[1..(k - 1)], ops[k])
  <2> HIDE DEF h
  <2>1. 1..0 = {}
    OBVIOUS
  <2>2. \A s \in SUBSET (1..n) :
          h[s] = IF s = {} THEN t ELSE S!Apply(h[s \ {S!Max(s)}], ops[S!Max(s)])
    BY <1>0, <1>4
  <2>3. ASSUME NEW k \in 1..n PROVE h[1..k] = S!Apply(h[1..(k - 1)], ops[k])
    <3>1. /\ 1..k # {} /\ 1..k \in SUBSET (1..n)
          /\ S!Max(1..k) = k /\ (1..k) \ {k} = 1..(k - 1)
      <4> HIDE DEF n
      <4> QED BY <1>0, Prefix DEF S!Max, Max
    <3> QED BY <2>2, <3>1
  <2> HIDE DEF Eq
  <2> QED BY <2>1, <2>2, <2>3
<1>7. ASSUME NEW k \in 0..n PROVE h[1..k] \in S!Table
  <2> DEFINE P == {j \in 0..n : h[1..j] \in S!Table}
  <2> HIDE DEF h
  <2>1. 0 \in P
    BY <1>0, <1>6
  <2>2. \A j \in 1..n : j - 1 \in P => j \in P
    BY <1>0, <1>6, ApplyType, ElementOfSeq
  <2>3. 0..n \subseteq P
    <3> HIDE DEF P, n
    <3> QED BY <1>0, <2>1, <2>2, UpTo
  <2> QED BY <2>3
<1> DEFINE g == [k \in 0..n |-> h[1..k]]
<1>8. /\ g \in [0..n -> S!Table] /\ g[0] = t
      /\ \A k \in 1..n : g[k] = S!Apply(g[k - 1], ops[k])
      /\ g[n] = S!Replay(t, ops)
  <2> HIDE DEF h
  <2> QED BY <1>0, <1>5, <1>6, <1>7
<1> QED BY <1>8

-----------------------------------------------------------------------------
\* RowOf, for any log and any part of it.
Writes(l, d, k, kind) == {i \in 1..d : l[i].key = k /\ l[i].kind = kind}

RowIn(l, d, k) ==
  IF Writes(l, d, k, "save") # {} THEN l[Max(Writes(l, d, k, "save"))].value
  ELSE IF Writes(l, d, k, "insert") # {} THEN l[Min(Writes(l, d, k, "insert"))].value
  ELSE Absent

LEMMA RowOfIsRowIn ==
  ASSUME NEW k
  PROVE  RowOf(k) = RowIn(log, durable, k)
  BY DEF RowOf, RowIn, Writes

\* Only the part counts.
LEMMA RowOfPart ==
  ASSUME NEW l, NEW m, NEW d \in Nat, NEW k, \A i \in 1..d : l[i] = m[i]
  PROVE  RowIn(l, d, k) = RowIn(m, d, k)
<1>1. \A kind : Writes(l, d, k, kind) = Writes(m, d, k, kind)
  BY DEF Writes
<1>2. \A kind : Writes(l, d, k, kind) # {} =>
        Max(Writes(l, d, k, kind)) \in 1..d /\ Min(Writes(l, d, k, kind)) \in 1..d
  <2> TAKE kind
  <2> DEFINE W == Writes(l, d, k, kind)
  <2> HAVE W # {}
  <2>1. W \subseteq 1..d /\ W \subseteq Nat /\ \A x \in W : x <= d
    BY DEF Writes
  <2> HIDE DEF W
  <2>2. Max(W) \in W
    BY <2>1, GreatestNumber
  <2>3. Min(W) \in W
    BY <2>1, LeastIsMin
  <2> QED BY <2>1, <2>2, <2>3 DEF W
<1> QED BY <1>1, <1>2 DEF RowIn

\* One more operation: what it does to the row of k is what Apply does.
LEMMA RowStep ==
  ASSUME NEW l \in Seq(Ops), NEW d \in Nat, d + 1 <= Len(l),
         NEW k \in Key, NEW t \in S!Table, t[k] = RowIn(l, d, k)
  PROVE  S!Apply(t, l[d + 1])[k] = RowIn(l, d + 1, k)
<1> DEFINE op == l[d + 1]
           Saves == Writes(l, d, k, "save")
           Inserts == Writes(l, d, k, "insert")
<1>0. Len(l) \in Nat /\ op \in Ops /\ \A i \in 1..d : l[i] \in Ops
  BY LenProperties, ElementOfSeq
<1>1. /\ op.kind \in {"insert", "save"} /\ op.key \in Key /\ op.value \in Value
      /\ \A i \in 1..d : l[i].value \in Value
  BY <1>0 DEF Ops, S!Operation
<1>2. /\ \A kind : ~(op.key = k /\ op.kind = kind)
           => Writes(l, d + 1, k, kind) = Writes(l, d, k, kind)
      /\ \A kind : op.key = k /\ op.kind = kind
           => Writes(l, d + 1, k, kind) = Writes(l, d, k, kind) \cup {d + 1}
  BY DEF Writes
<1>3. /\ Saves \subseteq 1..d /\ Inserts \subseteq 1..d
      /\ Saves \subseteq Nat /\ Inserts \subseteq Nat
      /\ \A x \in Saves \cup Inserts : x <= d
  BY DEF Writes
<1>4. Saves # {} => Max(Saves) \in Saves
  <2> HIDE DEF Saves
  <2> QED BY <1>3, GreatestNumber
<1>5. Inserts # {} => Min(Inserts) \in Inserts /\ \A x \in Inserts : Min(Inserts) <= x
  <2> HIDE DEF Inserts
  <2> QED BY <1>3, LeastIsMin
<1>6. RowIn(l, d, k) = Absent <=> Saves = {} /\ Inserts = {}
  BY <1>1, <1>3, <1>4, <1>5 DEF RowIn
<1>7. S!Apply(t, op)[k] = IF op.key # k \/ (op.kind = "insert" /\ t[k] # Absent)
                          THEN t[k] ELSE op.value
  BY <1>1 DEF S!Apply, S!Table
<1>8. CASE op.key # k
  BY <1>2, <1>7, <1>8 DEF RowIn
<1>9. CASE op.key = k /\ op.kind = "save"
  <2>1. Writes(l, d + 1, k, "save") = Saves \cup {d + 1}
    BY <1>2, <1>9
  <2>2. Max(Saves \cup {d + 1}) = d + 1
    <3>1. /\ Saves \cup {d + 1} \subseteq Int
          /\ \A x \in Saves \cup {d + 1} : x <= d + 1
      BY <1>3
    <3> HIDE DEF Saves
    <3> QED BY <3>1, MaxIs
  <2> QED BY <2>1, <2>2, <1>7, <1>9 DEF RowIn
<1>10. CASE op.key = k /\ op.kind = "insert"
  <2>1. /\ Writes(l, d + 1, k, "insert") = Inserts \cup {d + 1}
        /\ Writes(l, d + 1, k, "save") = Saves
    <3>1. ~(op.key = k /\ op.kind = "save")
      BY <1>10
    <3> HIDE DEF op
    <3> QED BY <1>2, <1>10, <3>1
  <2>2. Inserts # {} => Min(Inserts \cup {d + 1}) = Min(Inserts)
    <3> DEFINE least == Min(Inserts)
    <3> HIDE DEF Inserts, least
    <3> SUFFICES ASSUME Inserts # {} PROVE Min(Inserts \cup {d + 1}) = least
      BY DEF least
    <3>1. least \in Inserts /\ \A x \in Inserts : least <= x
      BY <1>5 DEF least
    <3>2. /\ Inserts \cup {d + 1} \subseteq Int /\ least \in Inserts \cup {d + 1}
          /\ \A x \in Inserts \cup {d + 1} : least <= x
      BY <3>1, <1>3
    <3> QED BY <3>2, MinIs
  <2>3. Min({d + 1}) = d + 1
    <3> DEFINE T == {d + 1}
    <3>1. T \subseteq Int /\ d + 1 \in T /\ \A x \in T : d + 1 <= x
      OBVIOUS
    <3> HIDE DEF T
    <3>2. Min(T) = d + 1
      BY <3>1, MinIs
    <3> QED BY <3>2 DEF T
  <2>4. CASE t[k] # Absent
    BY <2>1, <2>2, <2>4, <1>6, <1>7, <1>10 DEF RowIn
  <2>5. CASE t[k] = Absent
    BY <2>1, <2>3, <2>5, <1>6, <1>7, <1>10 DEF RowIn
  <2> QED BY <2>4, <2>5
<1> QED BY <1>1, <1>8, <1>9, <1>10

\* What a transaction leaves in the table, when it holds the next part of
\* the log.
LEMMA ReplayHolds ==
  ASSUME NEW l \in Seq(Ops), NEW d \in Nat, NEW ops \in Seq(Ops),
         d + Len(ops) <= Len(l), \A i \in 1..Len(ops) : ops[i] = l[d + i],
         NEW t \in S!Table, \A k \in Key : t[k] = RowIn(l, d, k)
  PROVE  /\ S!Replay(t, ops) \in S!Table
         /\ \A k \in Key : S!Replay(t, ops)[k] = RowIn(l, d + Len(ops), k)
<1> DEFINE n == Len(ops)
<1>0. n \in Nat /\ Len(l) \in Nat
  BY LenProperties
<1>1. PICK g \in [0..n -> S!Table] :
        /\ g[0] = t
        /\ \A i \in 1..n : g[i] = S!Apply(g[i - 1], ops[i])
        /\ g[n] = S!Replay(t, ops)
  BY ReplaySteps
<1> DEFINE P == {i \in 0..n : \A k \in Key : g[i][k] = RowIn(l, d + i, k)}
<1>2. 0 \in P
  BY <1>0, <1>1
<1>3. ASSUME NEW i \in 1..n, i - 1 \in P PROVE i \in P
  <2>1. /\ i - 1 \in 0..n /\ i - 1 \in Nat
        /\ g[i - 1] \in S!Table /\ g[i] = S!Apply(g[i - 1], l[d + i])
    BY <1>0, <1>1
  <2>2. ASSUME NEW k \in Key PROVE g[i][k] = RowIn(l, d + i, k)
    <3> DEFINE e == d + (i - 1)
               u == g[i - 1]
    <3>1. e \in Nat /\ e + 1 <= Len(l) /\ e + 1 = d + i /\ u \in S!Table
      BY <1>0, <2>1
    <3>2. u[k] = RowIn(l, e, k)
      BY <1>3
    <3> HIDE DEF e, u
    <3>3. S!Apply(u, l[e + 1])[k] = RowIn(l, e + 1, k)
      BY <3>1, <3>2, RowStep
    <3> QED BY <3>1, <3>3, <2>1 DEF u
  <2> QED BY <2>2
<1>4. 0..n \subseteq P
  <2> HIDE DEF P, n
  <2> QED BY <1>0, <1>2, <1>3, UpTo
<1> QED BY <1>0, <1>1, <1>4

TableInv == TypeOK /\ PipelineIntact /\ TableHoldsWritten

LEMMA InitTable == Init => TableInv
<1> SUFFICES ASSUME Init PROVE TableInv
  OBVIOUS
<1>1. table \in S!Table
  BY DEF Init, S!EmptyTable, S!Table
<1>2. TableHoldsWritten
  <2>1. ASSUME NEW k \in Key PROVE RowIn(log, durable, k) = Absent
    BY DEF Init, RowIn, Writes
  <2> QED BY <2>1, RowOfIsRowIn DEF TableHoldsWritten, Init, S!EmptyTable
<1> QED BY <1>1, <1>2, InitIInv DEF TableInv, TypeOK, IInv

\* A step that writes nothing, and keeps of the log at least what is written.
LEMMA KeepsTable ==
  ASSUME TableInv, IInv', UNCHANGED <<table, durable>>,
         \A i \in 1..durable : log'[i] = log[i]
  PROVE  TableInv'
<1>1. durable \in Nat
  BY LenProperties DEF TableInv, TypeOK, PipelineTypeOK
<1>2. ASSUME NEW k \in Key PROVE RowIn(log', durable', k) = RowIn(log, durable, k)
  BY <1>1, RowOfPart
<1>3. \A k \in Key : RowOf(k)' = RowIn(log', durable', k)
  BY DEF RowOf, RowIn, Writes
<1>4. TableHoldsWritten'
  BY <1>2, <1>3, RowOfIsRowIn DEF TableInv, TableHoldsWritten
<1> QED BY <1>4 DEF TableInv, TypeOK, IInv

LEMMA FlushTable ==
  ASSUME TableInv, Flush, IInv'
  PROVE  TableInv'
<1>1. /\ objects \in Seq(Ops) /\ rows \in Seq(Ops) /\ log \in Seq(Ops)
      /\ durable \in 0..Len(log) /\ writer = "running" /\ table \in S!Table
      /\ Len(log) \in Nat /\ Len(rows) \in Nat /\ Len(objects) \in Nat
      /\ durable \in Nat
  BY LenProperties DEF TableInv, TypeOK, PipelineTypeOK, Ops, Flush
<1>2. /\ table' = S!Replay(table, rows) /\ durable' = durable + Len(rows) /\ log' = log
  BY DEF Flush
<1>3. Rest(log, durable) = rows \o objects
  BY <1>1 DEF TableInv, PipelineIntact, Rest
<1>4. /\ Len(Rest(log, durable)) = Len(log) - durable
      /\ \A i \in 1..(Len(log) - durable) : Rest(log, durable)[i] = log[durable + i]
  BY <1>1, RestProperties
<1>5. /\ Len(rows \o objects) = Len(rows) + Len(objects)
      /\ \A i \in 1..Len(rows) : (rows \o objects)[i] = rows[i]
  BY <1>1, ConcatProperties
<1>6. durable + Len(rows) <= Len(log) /\ \A i \in 1..Len(rows) : rows[i] = log[durable + i]
  <2> DEFINE r == Rest(log, durable)
  <2> HIDE DEF r
  <2>1. r = rows \o objects /\ Len(r) = Len(log) - durable
        /\ \A i \in 1..(Len(log) - durable) : r[i] = log[durable + i]
    BY <1>3, <1>4 DEF r
  <2>2. durable + Len(rows) <= Len(log)
    <3>1. Len(log) - durable = Len(rows) + Len(objects)
      BY <2>1, <1>5
    <3> QED BY <3>1, <1>1
  <2>3. ASSUME NEW i \in 1..Len(rows) PROVE rows[i] = log[durable + i]
    <3>1. i \in 1..(Len(log) - durable)
      BY <2>2, <1>1
    <3> QED BY <3>1, <2>1, <1>5
  <2> QED BY <2>2, <2>3
<1>7. \A k \in Key : table[k] = RowIn(log, durable, k)
  BY RowOfIsRowIn DEF TableInv, TableHoldsWritten
<1>8. /\ table' \in S!Table
      /\ \A k \in Key : table'[k] = RowIn(log', durable', k)
  <2>1. /\ S!Replay(table, rows) \in S!Table
        /\ \A k \in Key :
             S!Replay(table, rows)[k] = RowIn(log, durable + Len(rows), k)
    BY <1>1, <1>6, <1>7, ReplayHolds
  <2> QED BY <2>1, <1>2
<1>9. \A k \in Key : RowOf(k)' = RowIn(log', durable', k)
  BY DEF RowOf, RowIn, Writes
<1> QED BY <1>8, <1>9 DEF TableInv, TypeOK, IInv, TableHoldsWritten

LEMMA NextTable == TableInv /\ [Next]_vars => TableInv'
<1> SUFFICES ASSUME TableInv, [Next]_vars PROVE TableInv'
  OBVIOUS
<1>0. IInv /\ IInv'
  BY NextIInv DEF TableInv, TypeOK, IInv
<1>1. log \in Seq(Ops) /\ durable \in 0..Len(log) /\ Len(log) \in Nat
  BY LenProperties DEF TableInv, TypeOK, PipelineTypeOK, Ops
<1>2. ASSUME NEW op \in Ops, Queue(op) PROVE TableInv'
  <2>1. \A i \in 1..durable : Append(log, op)[i] = log[i]
    BY <1>1, AppendProperties
  <2> QED BY <2>1, <1>0, <1>2, KeepsTable DEF Queue
<1>3. ASSUME NEW k \in Key, NEW v \in Value, InsertValue(k, v) \/ Save(k, v)
      PROVE  TableInv'
  <2>1. /\ [kind |-> "insert", key |-> k, value |-> v] \in Ops
        /\ [kind |-> "save", key |-> k, value |-> v] \in Ops
    BY DEF Ops, S!Operation
  <2> QED BY <2>1, <1>2, <1>3 DEF InsertValue, Insert, Save
<1>4. CASE Collect
  BY <1>4, <1>0, KeepsTable DEF Collect
<1>5. CASE Flush
  BY <1>5, <1>0, FlushTable
<1>6. CASE FlushFails
  BY <1>6, <1>0, KeepsTable DEF FlushFails
<1>7. CASE Crash
  <2>1. \A i \in 1..durable : SubSeq(log, 1, durable)[i] = log[i]
    BY <1>1
  <2> QED BY <2>1, <1>7, <1>0, KeepsTable DEF Crash
<1>8. CASE UNCHANGED vars
  BY <1>8, <1>0, KeepsTable DEF vars
<1> QED BY <1>3, <1>4, <1>5, <1>6, <1>7, <1>8 DEF Next, RunWriter

THEOREM TableInvariance == Spec => []TableInv
<1> QED BY InitTable, NextTable, PTL DEF Spec

\* Whatever was queued, collected and written in however many transactions,
\* and however often a process ended: the row of a key is that of the last
\* save written, or else of the first insert (writer.go:35-57).
THEOREM TableContents == Spec => []TableHoldsWritten
<1> QED BY TableInvariance, PTL DEF TableInv

\* All variables keep their types, the table too.
THEOREM TypeCorrectness == Spec => []TypeOK
<1> QED BY TableInvariance, PTL DEF TableInv
=============================================================================
