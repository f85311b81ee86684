-------------------------- MODULE AtomicLinkedList --------------------------
(* thread/AtomicLinkedList.h: a lock-free stack that is only ever emptied as *)
(* a whole.  The history variables are the order in which the elements came  *)
(* in, the strands that were taken, each with the elements func was called   *)
(* with so far, and how many calls of insertHead returned true.              *)
EXTENDS Integers, Sequences
LOCAL INSTANCE SequencesExt

CONSTANTS Inserters, Sweepers, Elems, Null
VARIABLES head, next,
          ins,      \* an inserter's place, its t and its oldHead
          swp,      \* a sweeper's place, its head and its strand
          order, strands, trues

listVars == <<head, next, ins, swp, order, strands, trues>>

Init ==
  /\ head = Null
  /\ next = [e \in Elems |-> Null]
  /\ ins = [t \in Inserters |-> [pc |-> "idle", e |-> Null, old |-> Null]]
  /\ swp = [s \in Sweepers |->
              [pc |-> "idle", at |-> Null, strand |-> 0]]
  /\ order = <<>> /\ strands = <<>> /\ trues = 0

(* insertHead: oldHead is read, and t linked before it *)
InsertLoad(t, e) ==
  /\ ins[t].pc = "idle"
  /\ next[e] = Null /\ \A u \in Inserters : ins[u].e # e
  /\ \A i \in DOMAIN order : order[i] # e
  /\ ins' = [ins EXCEPT ![t] = [pc |-> "cas", e |-> e, old |-> head]]
  /\ next' = [next EXCEPT ![e] = head]
  /\ UNCHANGED <<head, swp, order, strands, trues>>

(* compare_exchange_weak also fails without a reason *)
InsertFail(t) ==
  /\ ins[t].pc = "cas"
  /\ ins' = [ins EXCEPT ![t].old = head]
  /\ next' = [next EXCEPT ![ins[t].e] = head]
  /\ UNCHANGED <<head, swp, order, strands, trues>>

InsertCas(t) ==
  /\ ins[t].pc = "cas" /\ head = ins[t].old
  /\ head' = ins[t].e
  /\ order' = Append(order, ins[t].e)
  /\ trues' = trues + (IF ins[t].old = Null THEN 1 ELSE 0)
  /\ ins' = [ins EXCEPT ![t] = [pc |-> "idle", e |-> Null, old |-> Null]]
  /\ UNCHANGED <<next, swp, strands>>

(* the elements from e on *)
RECURSIVE From(_)
From(e) == IF e = Null THEN <<>> ELSE <<e>> \o From(next[e])

(* reverse: the links of a fragment nobody else sees are turned round *)
reverse(fragment) ==
  [e \in Elems |->
     IF \E i \in DOMAIN fragment : fragment[i] = e
     THEN LET i == CHOOSE i \in DOMAIN fragment : fragment[i] = e
          IN  IF i = 1 THEN Null ELSE fragment[i - 1]
     ELSE next[e]]

(* sweep's exchange and reverse, or reverseSweep's exchange *)
Exchange(s, lifo) ==
  /\ swp[s].pc = "idle" /\ head # Null
  /\ LET fragment == From(head)
         first == IF lifo THEN head ELSE fragment[Len(fragment)]
     IN  /\ swp' = [swp EXCEPT ![s] = [pc |-> "unlink", at |-> first,
                                       strand |-> Len(strands) + 1]]
         /\ next' = IF lifo THEN next ELSE reverse(fragment)
  /\ head' = Null
  /\ strands' = Append(strands, [lifo |-> lifo, told |-> <<>>])
  /\ UNCHANGED <<ins, order, trues>>

(* unlinkAll: one element is unlinked and handed to func; at the end of the *)
(* fragment sweep looks at the list again                                   *)
Unlink(s) ==
  /\ swp[s].pc = "unlink"
  /\ LET t == swp[s].at
     IN  /\ next' = [next EXCEPT ![t] = Null]
         /\ strands' = [strands EXCEPT ![swp[s].strand].told = Append(@, t)]
         /\ swp' = [swp EXCEPT ![s].at = next[t],
                               ![s].pc = IF next[t] = Null THEN "idle" ELSE @]
  /\ UNCHANGED <<head, ins, order, trues>>

Next ==
  \/ \E t \in Inserters : \/ \E e \in Elems : InsertLoad(t, e)
                          \/ InsertFail(t) \/ InsertCas(t)
  \/ \E s \in Sweepers : \/ \E lifo \in BOOLEAN : Exchange(s, lifo)
                         \/ Unlink(s)

Spec == Init /\ [][Next]_listVars

-----------------------------------------------------------------------------
(* what is still to come of strand i, in the order func will see it *)
Ahead(i) ==
  LET S == {s \in Sweepers : swp[s].pc = "unlink" /\ swp[s].strand = i}
  IN  IF S = {} THEN <<>> ELSE From(swp[CHOOSE s \in S : TRUE].at)

(* strand i in the order in which its elements came in *)
Strand(i) == LET q == strands[i].told \o Ahead(i)
             IN  IF strands[i].lifo THEN Reverse(q) ELSE q

(* Every element is handed to func once: whatever the inserters and sweepers *)
(* do, the strands taken so far and what is left in the list are the         *)
(* elements in the order they came in, each strand told in that order or, by *)
(* reverseSweep, backwards.  insertHead returns true once for each time the *)
(* list was emptied, so a caller that wakes a sweeper on true wakes it for   *)
(* every element.                                                            *)
ListComplete ==
  /\ FlattenSeq([i \in DOMAIN strands |-> Strand(i)]) \o Reverse(From(head))
       = order
  /\ trues = Len(strands) + (IF head = Null THEN 0 ELSE 1)
=============================================================================
