----------------------------- MODULE FifoQueue -----------------------------
(***************************************************************************)
(* What MPMCQueue's class comment promises: writes are put in one order,   *)
(* every read is assigned the earliest element no other read has been      *)
(* assigned (it may be assigned before the element is there), and gets     *)
(* that element.                                                           *)
(***************************************************************************)
EXTENDS Integers, Sequences

CONSTANTS Threads, Values, Nil

VARIABLES
  log,       \* everything written, in order
  taken,     \* how many elements have been assigned a reader
  mine,      \* which element a reading thread has been assigned, or -1
  last       \* what each thread has read and not used yet

vars == <<log, taken, mine, last>>

Init ==
  /\ log = <<>>
  /\ taken = 0
  /\ mine = [t \in Threads |-> -1]
  /\ last = [t \in Threads |-> Nil]

Write(v) ==
  /\ log' = Append(log, v)
  /\ UNCHANGED <<taken, mine, last>>

Assign(t) ==
  /\ mine[t] = -1
  /\ mine' = [mine EXCEPT ![t] = taken]
  /\ taken' = taken + 1
  /\ UNCHANGED <<log, last>>

Read(t) ==
  /\ mine[t] # -1
  /\ mine[t] < Len(log)
  /\ last' = [last EXCEPT ![t] = log[mine[t] + 1]]
  /\ mine' = [mine EXCEPT ![t] = -1]
  /\ UNCHANGED <<log, taken>>

Use(t) ==
  /\ last[t] # Nil
  /\ last' = [last EXCEPT ![t] = Nil]
  /\ UNCHANGED <<log, taken, mine>>

Next ==
  \/ \E v \in Values : Write(v)
  \/ \E t \in Threads : Assign(t) \/ Read(t) \/ Use(t)

Spec == Init /\ [][Next]_vars

=============================================================================
