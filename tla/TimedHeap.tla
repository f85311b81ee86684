----------------------------- MODULE TimedHeap ------------------------------
(***************************************************************************)
(* TimedHeap of accelerator/TimedHeap.h, with the Timeout of Time.h.  A    *)
(* push or an erase leaves the key's older entries in heap_; pop skips     *)
(* them when they come to the top.  Timeouts are compared by deadline      *)
(* only, and a default Timeout has the deadline 0.                         *)
(***************************************************************************)
EXTENDS Naturals, Bags, TLAPS

CONSTANTS
  Keys, None,
  Deadlines,   \* deadlines and times: points in time after 0
  MaxEntries   \* bound: entries of one kind in heap_

VARIABLES
  map,     \* map_: the deadline of each key, or None
  heap,    \* heap_: a bag of keys with deadlines
  now,     \* the argument of the pop under way, or None
  popped   \* what the last pop returned

vars == <<map, heap, now, popped>>

Entry(k, d) == SetToBag({<<k, d>>})

(* get_default(map_, k), as far as operator== looks.                       *)
Mapped(k) == IF map[k] = None THEN 0 ELSE map[k]

Push(k, d) ==
  /\ now = None
  /\ BagIn(<<k, d>>, heap) => heap[<<k, d>>] < MaxEntries
  /\ map' = [map EXCEPT ![k] = d]
  /\ heap' = heap (+) Entry(k, d)
  /\ popped' = None
  /\ UNCHANGED now

Erase(k) ==
  /\ now = None
  /\ map' = [map EXCEPT ![k] = None]
  /\ popped' = None
  /\ UNCHANGED <<heap, now>>

Pop(time) ==
  /\ now = None
  /\ now' = time
  /\ UNCHANGED <<map, heap, popped>>

(* An entry at the top: no entry has an earlier deadline.                  *)
Top(k, d) ==
  /\ <<k, d>> \in BagToSet(heap)
  /\ \A e \in BagToSet(heap) : d <= e[2]

PopTopUnchecked(k, d) ==   \* mutant
  /\ now # None /\ Top(k, d)
  /\ IF d <= now
     THEN /\ map' = [map EXCEPT ![k] = None]
          /\ heap' = heap (-) Entry(k, d)
          /\ popped' = <<k, d>>
     ELSE popped' = None /\ UNCHANGED <<map, heap>>
  /\ now' = None

(* One round of pop's loop: return the top, give up, or drop a stale top.  *)
PopTop(k, d) ==
  /\ now # None /\ Top(k, d)
  /\ \/ /\ Mapped(k) = d /\ d <= now
        /\ map' = [map EXCEPT ![k] = None]
        /\ heap' = heap (-) Entry(k, d)
        /\ popped' = <<k, d>>
        /\ now' = None
     \/ /\ Mapped(k) = d /\ d > now
        /\ popped' = None
        /\ now' = None
        /\ UNCHANGED <<map, heap>>
     \/ /\ Mapped(k) # d
        /\ heap' = heap (-) Entry(k, d)
        /\ UNCHANGED <<map, now, popped>>

PopEmpty ==
  /\ now # None /\ BagToSet(heap) = {}
  /\ popped' = None
  /\ now' = None
  /\ UNCHANGED <<map, heap>>

Init ==
  /\ map = [k \in Keys |-> None]
  /\ heap = EmptyBag
  /\ now = None /\ popped = None

Next ==
  \/ \E k \in Keys :
       Erase(k) \/ \E d \in Deadlines : Push(k, d) \/ PopTop(k, d)
  \/ \E time \in Deadlines : Pop(time)
  \/ PopEmpty

Spec == Init /\ [][Next]_vars

-----------------------------------------------------------------------------

TypeOK ==
  /\ map \in [Keys -> Deadlines \cup {None}]
  /\ IsABag(heap) /\ BagToSet(heap) \subseteq Keys \X Deadlines
  /\ now \in Deadlines \cup {None}
  /\ popped \in (Keys \X Deadlines) \cup {None}

(* Every deadline that is set will come to the top of the heap.            *)
DeadlineIsInHeap == \A k \in Keys :
  map[k] # None => <<k, map[k]>> \in BagToSet(heap)

(* The heap holds what pop will need.                                      *)
HeapSound == TypeOK /\ DeadlineIsInHeap

(* A heap that forgets lazily behaves as a map of deadlines: no erased or  *)
(* replaced deadline is popped and none is popped before an earlier one;   *)
(* and every deadline that is set will come to the heap's top.             *)
Deadline == INSTANCE DeadlineMap WITH deadline <- map

ImplementsDeadlineMap == Deadline!Spec /\ []HeapSound

-----------------------------------------------------------------------------
(***************************************************************************)
(* TimedHeap implements DeadlineMap for any keys and deadlines.  What a    *)
(* step of pop relies on is HeapSound: the entry of every deadline that is *)
(* set is still in the heap, so no such deadline is before the heap's top. *)
(***************************************************************************)

(* What heap_.push adds.                                                   *)
LEMMA Added ==
  ASSUME NEW h, IsABag(h), NEW k, NEW d
  PROVE  /\ IsABag(h (+) Entry(k, d))
         /\ BagToSet(h (+) Entry(k, d)) = BagToSet(h) \cup {<<k, d>>}
  BY DEF IsABag, BagToSet, Entry, SetToBag, (+)

(* heap_.pop takes one entry of the top's kind and leaves all others.      *)
LEMMA Removed ==
  ASSUME NEW h, IsABag(h), NEW k, NEW d
  PROVE  /\ IsABag(h (-) Entry(k, d))
         /\ BagToSet(h (-) Entry(k, d)) \subseteq BagToSet(h)
         /\ BagToSet(h) \ {<<k, d>>} \subseteq BagToSet(h (-) Entry(k, d))
  BY DEF IsABag, BagToSet, Entry, SetToBag, (-)

LEMMA EmptyIsABag == IsABag(EmptyBag) /\ BagToSet(EmptyBag) = {}
  BY DEF IsABag, BagToSet, EmptyBag, SetToBag

LEMMA HeapSoundInit == Init => HeapSound
  BY EmptyIsABag DEF Init, HeapSound, TypeOK, DeadlineIsInHeap

LEMMA HeapSoundNext ==
  ASSUME None \notin Deadlines, HeapSound, [Next]_vars PROVE HeapSound'
<1> USE DEF HeapSound, TypeOK, DeadlineIsInHeap
<1>1. ASSUME NEW k \in Keys, Erase(k) PROVE HeapSound'
  BY <1>1 DEF Erase
<1>2. ASSUME NEW k \in Keys, NEW d \in Deadlines, Push(k, d) PROVE HeapSound'
  BY <1>2, Added DEF Push
<1>3. ASSUME NEW k \in Keys, NEW d \in Deadlines, PopTop(k, d) PROVE HeapSound'
  BY <1>3, Removed DEF PopTop, Mapped
<1>4. ASSUME NEW time \in Deadlines, Pop(time) PROVE HeapSound'
  BY <1>4 DEF Pop
<1>5. CASE PopEmpty
  BY <1>5 DEF PopEmpty
<1>6. CASE UNCHANGED vars
  BY <1>6 DEF vars
<1> QED
  BY <1>1, <1>2, <1>3, <1>4, <1>5, <1>6 DEF Next

(* The top of the heap is no later than any deadline that is set.          *)
LEMMA TopIsEarliest ==
  ASSUME HeapSound, NEW k, NEW d, Top(k, d), NEW j \in Keys, map[j] # None
  PROVE  d <= map[j]
  BY DEF HeapSound, TypeOK, DeadlineIsInHeap, Top

LEMMA StepSimulation ==
  ASSUME Deadlines \subseteq Nat \ {0}, None \notin Deadlines, HeapSound,
         [Next]_vars
  PROVE  [Deadline!Next]_(Deadline!vars)
<1> USE DEF Deadline!vars
<1>1. ASSUME NEW k \in Keys, Erase(k) PROVE Deadline!Next
  BY <1>1 DEF Erase, Deadline!Next, Deadline!Erase
<1>2. ASSUME NEW k \in Keys, NEW d \in Deadlines, Push(k, d)
      PROVE  Deadline!Next
  BY <1>2 DEF Push, Deadline!Next, Deadline!Push
<1>3. ASSUME NEW k \in Keys, NEW d \in Deadlines, PopTop(k, d)
      PROVE  [Deadline!Next]_(Deadline!vars)
  <2>1. now \in Deadlines /\ Top(k, d)
    BY <1>3 DEF PopTop, HeapSound, TypeOK
  <2>2. \A j \in Keys : map[j] # None => d <= map[j]
    BY <2>1, TopIsEarliest
  <2>3. CASE /\ Mapped(k) = d /\ d <= now /\ popped' = <<k, d>>
             /\ map' = [map EXCEPT ![k] = None]
    <3>1. map[k] = d /\ map[k] # None
      BY <2>3 DEF Mapped
    <3>2. Deadline!Pop(k, now)
      BY <2>2, <2>3, <3>1 DEF Deadline!Pop, Deadline!Set
    <3> QED
      BY <2>1, <3>2 DEF Deadline!Next
  <2>4. CASE Mapped(k) = d /\ d > now /\ popped' = None /\ UNCHANGED map
    <3>1. \A j \in Keys : map[j] # None => map[j] > now
      <4> SUFFICES ASSUME NEW j \in Keys, map[j] # None PROVE map[j] > now
        OBVIOUS
      <4>1. map[j] \in Nat /\ now \in Nat /\ d \in Nat
        BY <2>1 DEF HeapSound, TypeOK
      <4>2. d <= map[j] /\ d > now
        BY <2>2, <2>4
      <4> QED
        BY <4>1, <4>2
    <3>2. Deadline!PopNothing(now)
      BY <2>4, <3>1 DEF Deadline!PopNothing, Deadline!Set
    <3> QED
      BY <2>1, <3>2 DEF Deadline!Next
  <2>5. CASE UNCHANGED <<map, popped>>
    BY <2>5
  <2> QED
    BY <1>3, <2>3, <2>4, <2>5 DEF PopTop
<1>4. ASSUME NEW time \in Deadlines, Pop(time) PROVE UNCHANGED Deadline!vars
  BY <1>4 DEF Pop
<1>5. CASE PopEmpty
  <2>1. now \in Deadlines /\ \A j \in Keys : map[j] = None
    BY <1>5 DEF PopEmpty, HeapSound, TypeOK, DeadlineIsInHeap
  <2>2. Deadline!PopNothing(now)
    BY <1>5, <2>1 DEF PopEmpty, Deadline!PopNothing, Deadline!Set
  <2> QED
    BY <2>1, <2>2 DEF Deadline!Next
<1>6. CASE UNCHANGED vars
  BY <1>6 DEF vars
<1> QED
  BY <1>1, <1>2, <1>3, <1>4, <1>5, <1>6 DEF Next

(* TimedHeap's push, erase and pop, with the stale entries they leave in   *)
(* heap_ and the rounds of pop's loop, behave as a map of deadlines: what  *)
(* was erased or replaced is never popped, and nothing is popped before an *)
(* earlier deadline or refused after its own; the entry of every deadline  *)
(* that is set stays in heap_.                                             *)
THEOREM Implements ==
  ASSUME Deadlines \subseteq Nat \ {0}, None \notin Deadlines
  PROVE  Spec => ImplementsDeadlineMap
<1>1. Init => Deadline!Init
  BY DEF Init, Deadline!Init
<1> QED
  BY <1>1, HeapSoundInit, HeapSoundNext, StepSimulation, PTL
     DEF Spec, ImplementsDeadlineMap, Deadline!Spec

=============================================================================
