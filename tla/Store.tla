------------------------------- MODULE Store -------------------------------
(***************************************************************************)
(* What the recorder of package database promises: operations accepted     *)
(* for the database take effect in the order they were accepted, a few at  *)
(* a time, each once.  A failed transaction or the end of the process      *)
(* forgets the operations that did not take effect yet, all of them, and   *)
(* nothing else.                                                           *)
(***************************************************************************)
EXTENDS Naturals, SequencesExt

CONSTANTS
  Key,     \* primary keys of the rows
  Value,   \* contents of a row
  Absent   \* stands for the row that is not there; not a Value

Operation == [kind : {"insert", "save"}, key : Key, value : Value]
Table     == [Key -> Value \cup {Absent}]

EmptyTable == [k \in Key |-> Absent]

(***************************************************************************)
(* An insert does nothing when the key is there already (the clause        *)
(* OnConflict DoNothing); a save replaces the row or makes it.             *)
(***************************************************************************)
Overwrite(t, op) == [t EXCEPT ![op.key] = op.value]  \* rejected variant

Apply(t, op) ==
  IF op.kind = "insert" /\ t[op.key] # Absent
  THEN t
  ELSE [t EXCEPT ![op.key] = op.value]

Replay(t, ops) == FoldLeft(Apply, t, ops)

VARIABLES
  content,   \* the table
  pending,   \* operations accepted that did not take effect yet
  up         \* operations are still being applied

vars == <<content, pending, up>>

Init ==
  /\ content = EmptyTable
  /\ pending = <<>>
  /\ up = TRUE

Accept(op) ==
  /\ up
  /\ pending' = Append(pending, op)
  /\ UNCHANGED <<content, up>>

Commit(n) ==
  /\ up
  /\ content' = Replay(content, SubSeq(pending, 1, n))
  /\ pending' = SubSeq(pending, n + 1, Len(pending))
  /\ UNCHANGED up

Fail ==
  /\ up
  /\ up' = FALSE
  /\ pending' = <<>>
  /\ UNCHANGED content

Restart ==
  /\ up' = TRUE
  /\ pending' = <<>>
  /\ UNCHANGED content

Next ==
  \/ \E op \in Operation : Accept(op)
  \/ \E n \in 1..Len(pending) : Commit(n)
  \/ Fail
  \/ Restart

Spec == Init /\ [][Next]_vars
=============================================================================
