--------------------------- MODULE EvictingCacheMap ---------------------------
(* EvictingCacheMap.h: a map that evicts the entries used longest ago.  The  *)
(* entries are on a list in the order of their use and in a hash index.  For *)
(* each evicted entry a hook is called, which may throw, and may call the    *)
(* map again; such calls nest.  An entry's value is the number of the call   *)
(* that set it.                                                              *)
EXTENDS Integers, Sequences, SequencesExt, FiniteSetsExt

CONSTANTS CacheKeys,
          MaxOps,     \* bound: calls
          MaxNested   \* bound: prunes inside of a hook

VARIABLES lru,        \* lru_, the latest use first: <<key, value>>
          index,      \* index_: the keys in it
          limits,     \* maxSize_ and clearSize_
          frames,     \* prunes in progress, the innermost last
          ops,
          usedAt,     \* when a key was last set or found, by number of calls
          evictedAt,  \* when the last evicted key was last used
          handed,     \* the values the hook was given
          gone,       \* those erased, overwritten, or evicted without a hook
          regrown     \* a hook has set a key

history == <<usedAt, evictedAt, handed, gone>>
cacheVars == <<lru, index, limits, frames, ops, history, regrown>>

Unlimited == 0

Init == /\ lru = <<>> /\ index = {} /\ frames = <<>> /\ ops = 0
        /\ limits \in [max : {Unlimited, 2}, clear : {1, 2}]
        /\ usedAt = [k \in CacheKeys |-> 0]
        /\ evictedAt = 0 /\ handed = {} /\ gone = {} /\ regrown = FALSE

-----------------------------------------------------------------------------
Place(k) == CHOOSE i \in DOMAIN lru : lru[i][1] = k
Promoted(l, k, v) == <<<<k, v>>>> \o SelectSeq(l, LAMBDA e : e[1] # k)

(* The user calls the map, or the hook does in the middle of a prune. *)
InHook == frames # <<>> /\ Last(frames).pc = "hook"
Called(name) ==
  /\ frames = <<>> \/ InHook
  /\ ops < MaxOps
  /\ ops' = ops + 1
  /\ regrown' = (regrown \/ (InHook /\ name = "set"))

(* prune(n, hook): the loop runs in PruneOne. *)
Prune(n, hook, newMax) ==
  /\ Len(frames) < MaxNested
  /\ frames' = Append(frames, [pc |-> "loop", left |-> n, hook |-> hook,
                               newMax |-> newMax])
NoMax == -1

(* set: a key that is new is put at the front, and only then others go *)
Set(k, promote, hook) ==
  LET v == ops + 1 IN
  /\ Called("set")
  /\ IF k \in index
     THEN /\ lru' = IF promote THEN Promoted(lru, k, v)
                    ELSE [lru EXCEPT ![Place(k)] = <<k, v>>]
          /\ gone' = gone \cup {lru[Place(k)][2]}
          /\ usedAt' = [usedAt EXCEPT ![k] = IF promote THEN v ELSE @]
          /\ UNCHANGED <<index, frames>>
     ELSE /\ index' = index \cup {k}
          /\ lru' = Promoted(lru, k, v)
          /\ usedAt' = [usedAt EXCEPT ![k] = v]
          /\ IF limits.max > 0 /\ Cardinality(index') > limits.max
             THEN Prune(limits.clear, hook, NoMax) ELSE UNCHANGED frames
          /\ UNCHANGED gone
  /\ UNCHANGED <<limits, evictedAt, handed>>

(* find, get: the entry becomes the latest *)
Find(k) ==
  /\ Called("find")
  /\ k \in index
  /\ lru' = Promoted(lru, k, lru[Place(k)][2])
  /\ usedAt' = [usedAt EXCEPT ![k] = ops + 1]
  /\ UNCHANGED <<index, limits, frames, evictedAt, handed, gone>>

Erase(k) ==
  /\ Called("erase")
  /\ k \in index
  /\ index' = index \ {k}
  /\ gone' = gone \cup {lru[Place(k)][2]}
  /\ lru' = SelectSeq(lru, LAMBDA e : e[1] # k)
  /\ UNCHANGED <<limits, frames, usedAt, evictedAt, handed>>

(* The new limit is not in force while the entries in excess go. *)
SetMaxSize(n, hook) ==
  LET size == Cardinality(index) IN
  /\ Called("limit")
  /\ IF n # Unlimited /\ n < size
     THEN Prune(Max({size - n, limits.clear}), hook, n) /\ UNCHANGED limits
     ELSE limits' = [limits EXCEPT !.max = n] /\ UNCHANGED frames
  /\ UNCHANGED <<lru, index, history>>

SetClearSize(n) ==
  /\ Called("limit")
  /\ limits' = [limits EXCEPT !.clear = n]
  /\ UNCHANGED <<lru, index, frames, history>>

(* prune, clear, and the destructor, which unsets the hook *)
PruneSome(n, hook) ==
  /\ Called("prune")
  /\ Prune(n, hook, NoMax)
  /\ UNCHANGED <<lru, index, limits, history>>

PruneFront ==   \* mutant
  LET f == Last(frames)
      e == Head(lru)
  IN  /\ frames # <<>> /\ f.pc = "loop" /\ f.left > 0 /\ lru # <<>>
      /\ lru' = Tail(lru)
      /\ index' = index \ {e[1]}
      /\ evictedAt' = usedAt[e[1]]
      /\ frames' = [frames EXCEPT ![Len(frames)] =
                      [@ EXCEPT !.left = @ - 1,
                                !.pc = IF f.hook THEN "hook" ELSE "loop"]]
      /\ IF f.hook THEN handed' = handed \cup {e[2]} /\ UNCHANGED gone
                   ELSE gone' = gone \cup {e[2]} /\ UNCHANGED handed
      /\ UNCHANGED <<limits, ops, usedAt, regrown>>

(* One turn of pruneWithFailSafeOption's loop, up to the call of the hook. *)
PruneOne ==
  LET f == Last(frames)
      e == Last(lru)
  IN  /\ frames # <<>> /\ f.pc = "loop" /\ f.left > 0 /\ lru # <<>>
      /\ lru' = Front(lru)
      /\ index' = index \ {e[1]}
      /\ evictedAt' = usedAt[e[1]]
      /\ frames' = [frames EXCEPT ![Len(frames)] =
                      [@ EXCEPT !.left = @ - 1,
                                !.pc = IF f.hook THEN "hook" ELSE "loop"]]
      /\ IF f.hook THEN handed' = handed \cup {e[2]} /\ UNCHANGED gone
                   ELSE gone' = gone \cup {e[2]} /\ UNCHANGED handed
      /\ UNCHANGED <<limits, ops, usedAt, regrown>>

PruneEnds ==
  LET f == Last(frames) IN
  /\ frames # <<>> /\ f.pc = "loop" /\ (f.left = 0 \/ lru = <<>>)
  /\ limits' = IF f.newMax = NoMax THEN limits
               ELSE [limits EXCEPT !.max = f.newMax]
  /\ frames' = Front(frames)
  /\ UNCHANGED <<lru, index, ops, history, regrown>>

HookReturns ==
  /\ InHook
  /\ frames' = [frames EXCEPT ![Len(frames)].pc = "loop"]
  /\ UNCHANGED <<lru, index, limits, ops, history, regrown>>

(* The call that pruned ends, and the hook it was made from, if any, goes on *)
(* or throws in its turn.                                                    *)
HookThrows ==
  /\ InHook
  /\ frames' = Front(frames)
  /\ UNCHANGED <<lru, index, limits, ops, history, regrown>>

CacheCall == \/ \E k \in CacheKeys, promote, hook \in BOOLEAN :
                   Set(k, promote, hook)
             \/ \E k \in CacheKeys : Find(k) \/ Erase(k)
             \/ \E n \in 0 .. 2, hook \in BOOLEAN : SetMaxSize(n, hook)
             \/ \E n \in 1 .. 2 : SetClearSize(n)
             \/ \E n \in {1, Cardinality(index)}, hook \in BOOLEAN :
                   PruneSome(n, hook)
Next == CacheCall \/ PruneOne \/ PruneEnds \/ HookReturns \/ HookThrows

Spec == Init /\ [][Next]_cacheVars

-----------------------------------------------------------------------------
(* Also in the middle of a prune, when the hook looks at the map or changes  *)
(* it: the list and the index have the same keys; all were used later than   *)
(* any that was evicted; a value in the map was neither given to a hook nor  *)
(* dropped before; and between calls there are no more entries than the      *)
(* limit, even if a hook threw, unless hooks set keys themselves.            *)
CacheSound ==
  LET keys == [i \in DOMAIN lru |-> lru[i][1]]
      values == {lru[i][2] : i \in DOMAIN lru}
  IN  /\ ToSet(keys) = index /\ Len(keys) = Cardinality(index)
      /\ \A k \in index : usedAt[k] > evictedAt
      /\ values \cap (handed \cup gone) = {} /\ handed \cap gone = {}
      /\ Cardinality(values) = Len(lru)
      /\ frames = <<>> /\ limits.max # Unlimited /\ ~regrown =>
           Len(lru) <= limits.max
=============================================================================
