------------------------- MODULE AtomicUnorderedMap -------------------------
(* thread/AtomicUnorderedMap.h: an insert-only hash map without locks.  A    *)
(* slot is both a bucket, whose chain its head_ starts, and storage for one  *)
(* pair, whose life its state tells; both are in one atomic word.  A chain   *)
(* is extended only at its head, so that a search is decided by the load of  *)
(* the head.  Every other action is one access to an atomic word.            *)
EXTENDS Integers, Sequences, FiniteSets, TLC

CONSTANTS Callers,    \* threads 1..n, one call each
          NumSlots,   \* numSlots_
          HashOf,     \* a key's slot, after keyToSlotIdx
          NearTries,  \* attempts next to the key's slot (8 in the code)
          MaxTries    \* kMaxAllocationTries

VARIABLES slots, calls,
          done   \* keys some call returned with; those its inserter did

vars == <<slots, calls, done>>

Slots == 0 .. NumSlots - 1
EMPTY == 0
CONSTRUCTING == 1
LINKED == 2

Goto(t, changes) == calls' = [calls EXCEPT ![t] = changes @@ calls[t]]
At(t, pc) == calls[t].pc = pc
Word(s) == <<slots[s].head, slots[s].state>>

(* find(key, slot): the chain that starts at a head *)
Chain(head) == LET C[i \in 0 .. NumSlots] ==
                     IF i = 0 THEN <<head>>
                     ELSE LET c == C[i - 1] IN
                          IF c[Len(c)] = 0 THEN c
                          ELSE Append(c, slots[c[Len(c)]].next)
               IN  C[NumSlots]
Find(key) ==
  LET chain == Chain(slots[HashOf[key]].head)
      Hits == {i \in DOMAIN chain :
                 chain[i] # 0 /\ slots[chain[i]].key = key}
  IN  IF Hits = {} THEN 0
      ELSE chain[CHOOSE i \in Hits : \A j \in Hits : i <= j]

(* The constructor: every slot is empty, and slot 0, nil, is never given out *)
Init(ops) ==
  /\ slots = [s \in Slots |-> [head |-> 0, next |-> 0, key |-> "none",
               state |-> IF s = 0 THEN CONSTRUCTING ELSE EMPTY]]
  /\ calls = [t \in Callers |-> [op |-> ops[t][1], key |-> ops[t][2],
               pc |-> CASE ops[t][1] = "insert" -> "head"
                        [] ops[t][1] = "find" -> "lookup"
                        [] OTHER -> "begin",
               prev |-> <<0, 0>>, seen |-> <<0, 0>>, idx |-> 0, tries |-> 0,
               res |-> 0, new |-> FALSE, threw |-> FALSE, keys |-> {},
               before |-> [found |-> {}, new |-> {}]]]
  /\ done = [found |-> {}, new |-> {}]

-----------------------------------------------------------------------------
(* findOrConstruct *)
LoadHead(t) ==
  /\ At(t, "head")
  /\ Goto(t, [pc |-> "first", prev |-> Word(HashOf[calls[t].key]),
              before |-> done])
  /\ UNCHANGED <<slots, done>>

Found(t, s) == /\ Goto(t, [pc |-> "done", res |-> s])
               /\ done' = [found |-> done.found \cup {calls[t].key},
                           new |-> IF calls[t].new
                                   THEN done.new \cup {calls[t].key}
                                   ELSE done.new]

FirstFind(t) ==
  LET s == Find(calls[t].key) IN
  /\ At(t, "first")
  /\ IF s # 0 THEN Found(t, s)
     ELSE Goto(t, [pc |-> "try"]) /\ UNCHANGED done
  /\ UNCHANGED slots

(* allocateNear: next to the slot at first, then anywhere, then bad_alloc *)
Attempts(t) ==
  LET start == HashOf[calls[t].key]
      tries == calls[t].tries
  IN  IF tries < NearTries /\ start + tries < NumSlots
      THEN {start + tries} ELSE Slots

TrySlot(t) ==
  /\ At(t, "try")
  /\ IF calls[t].tries = MaxTries THEN Goto(t, [pc |-> "done", threw |-> TRUE])
     ELSE \E s \in Attempts(t) :
            IF slots[s].state = EMPTY
            THEN Goto(t, [pc |-> "take", idx |-> s, seen |-> Word(s)])
            ELSE Goto(t, [tries |-> calls[t].tries + 1])
  /\ UNCHANGED <<slots, done>>

TakeSlot(t) ==
  LET c == calls[t] IN
  /\ At(t, "take")
  /\ IF Word(c.idx) = c.seen
     THEN /\ slots' = [slots EXCEPT ![c.idx].state = CONSTRUCTING,
                                    ![c.idx].key = c.key]
          /\ Goto(t, [pc |-> "link"])
     ELSE /\ Goto(t, [pc |-> "try", tries |-> c.tries + 1])
          /\ UNCHANGED slots
  /\ UNCHANGED done

(* the exchange that puts the pair at the head of its chain, and for a slot  *)
(* of its own chain ends its construction too                                *)
LinkSlot(t) ==
  LET c == calls[t]
      s == HashOf[c.key]
      linked == [slots EXCEPT ![c.idx].next = c.prev[1]]
  IN  /\ At(t, "link")
      /\ IF Word(s) = c.prev
         THEN /\ slots' = [linked EXCEPT ![s].head = c.idx,
                             ![s].state = IF s = c.idx THEN LINKED ELSE @]
              /\ Goto(t, [pc |-> IF s = c.idx THEN "won" ELSE "linked",
                          res |-> c.idx, new |-> TRUE])
         ELSE /\ slots' = linked
              /\ Goto(t, [pc |-> "again", prev |-> Word(s)])
      /\ UNCHANGED done

SetLinked(t) ==
  /\ At(t, "linked")
  /\ slots' = [slots EXCEPT ![calls[t].idx].state =
                              @ + LINKED - CONSTRUCTING]
  /\ Goto(t, [pc |-> "won"])
  /\ UNCHANGED done

Won(t) == At(t, "won") /\ Found(t, calls[t].idx) /\ UNCHANGED slots

AgainUnsearched(t) ==   \* mutant
  /\ At(t, "again")
  /\ Goto(t, [pc |-> "link"])
  /\ UNCHANGED <<slots, done>>

FindAgain(t) ==
  LET s == Find(calls[t].key) IN
  /\ At(t, "again")
  /\ Goto(t, IF s = 0 THEN [pc |-> "link"] ELSE [pc |-> "undo", res |-> s])
  /\ UNCHANGED <<slots, done>>

Undo(t) ==
  LET i == calls[t].idx IN
  /\ At(t, "undo")
  /\ slots' = [slots EXCEPT ![i].key = "none",
                            ![i].state = @ + EMPTY - CONSTRUCTING]
  /\ Found(t, calls[t].res)

-----------------------------------------------------------------------------
Lookup(t) ==
  /\ At(t, "lookup")
  /\ Goto(t, [pc |-> "done", res |-> Find(calls[t].key), before |-> done])
  /\ UNCHANGED <<slots, done>>

(* cbegin() and ++: from the last slot down, those that are LINKED *)
Begin(t) ==
  /\ At(t, "begin")
  /\ Goto(t, [pc |-> "iter", idx |-> NumSlots - 1, before |-> done])
  /\ UNCHANGED <<slots, done>>

Iterate(t) ==
  LET c == calls[t] IN
  /\ At(t, "iter")
  /\ IF c.idx = 0 THEN Goto(t, [pc |-> "done"])
     ELSE Goto(t, [idx |-> c.idx - 1,
                   keys |-> IF slots[c.idx].state = LINKED
                            THEN c.keys \cup {slots[c.idx].key} ELSE c.keys])
  /\ UNCHANGED <<slots, done>>

Step(t) == \/ LoadHead(t) \/ FirstFind(t) \/ TrySlot(t) \/ TakeSlot(t)
           \/ LinkSlot(t) \/ SetLinked(t) \/ Won(t) \/ FindAgain(t)
           \/ Undo(t) \/ Lookup(t) \/ Begin(t) \/ Iterate(t)

Next == \E t \in Callers : Step(t)

Spec(ops) == Init(ops) /\ [][Next]_vars

-----------------------------------------------------------------------------
(* A key is in one slot of its own chain for good, whichever of several      *)
(* inserting threads put it there: the calls that answer with a slot agree   *)
(* on it, at most one says it inserted, and no find that begins after one    *)
(* returned, and no loop that begins after the inserter did, misses the key. *)
(* Slots of calls that lost are empty again, so that at the end none is left *)
(* half constructed.                                                         *)
MapSound ==
  LET In(s) == LET c == Chain(slots[s].head) IN {c[i] : i \in DOMAIN c} \ {0}
      Ended(t) == calls[t].pc = "done"
  IN  /\ \A s \in Slots : \A i \in In(s) :
           /\ HashOf[slots[i].key] = s
           /\ slots[i].state # EMPTY
           /\ \A j \in In(s) : slots[j].key = slots[i].key => i = j
      /\ \A t \in Callers : Ended(t) /\ calls[t].op # "scan" =>
           LET c == calls[t] IN
           IF c.res # 0 THEN slots[c.res].key = c.key /\ c.res = Find(c.key)
           ELSE c.op = "insert" => c.threw
      /\ \A t, u \in Callers : calls[t].new /\ calls[u].new /\ t # u =>
           calls[t].key # calls[u].key
      /\ \A t \in Callers : Ended(t) /\ ~calls[t].threw =>
           /\ calls[t].op = "scan" => calls[t].before.new \subseteq calls[t].keys
           /\ calls[t].op = "find" /\ calls[t].res = 0 =>
                calls[t].key \notin calls[t].before.found
      /\ (\A t \in Callers : Ended(t)) =>
           \A s \in Slots \ {0} : slots[s].state # CONSTRUCTING
=============================================================================
