---------------------------- MODULE DeadlineMap ----------------------------
(***************************************************************************)
(* What TimedHeap promises: one deadline for each key, replaced by a push, *)
(* forgotten by an erase, and handed out by pop once it has passed, the    *)
(* earliest first.                                                         *)
(***************************************************************************)
EXTENDS Naturals

CONSTANTS Keys, Deadlines, None

VARIABLES
  deadline,   \* the deadline of each key, or None
  popped      \* what the last pop returned: a key and its deadline, or None

vars == <<deadline, popped>>

Set(k) == deadline[k] # None

Push(k, d) ==
  /\ deadline' = [deadline EXCEPT ![k] = d]
  /\ popped' = None

Erase(k) ==
  /\ deadline' = [deadline EXCEPT ![k] = None]
  /\ popped' = None

Pop(k, now) ==
  /\ Set(k) /\ deadline[k] <= now
  /\ \A j \in Keys : Set(j) => deadline[k] <= deadline[j]
  /\ popped' = <<k, deadline[k]>>
  /\ deadline' = [deadline EXCEPT ![k] = None]

PopNothing(now) ==
  /\ \A k \in Keys : Set(k) => deadline[k] > now
  /\ popped' = None
  /\ UNCHANGED deadline

Init == deadline = [k \in Keys |-> None] /\ popped = None

Next ==
  \/ \E k \in Keys : Erase(k) \/ \E d \in Deadlines : Push(k, d) \/ Pop(k, d)
  \/ \E now \in Deadlines : PopNothing(now)

Spec == Init /\ [][Next]_vars

=============================================================================
