---------------------------- MODULE FBStringRefs ----------------------------
(* FBString.h, fbstring_core::RefCounted: large strings of several threads   *)
(* that share a block.  Every thread uses only strings of its own; the count *)
(* of the block is all that they have in common.                             *)
EXTENDS Integers, Sequences, FiniteSets

CONSTANTS StrThreads, \* each has two strings of its own
          Values,     \* what a thread may write
          MaxCalls    \* bound: copies and changes, of all threads

VARIABLES held,       \* string -> its block, or 0
          want,       \* string -> what it should hold
          blocks,     \* sequence of [refs, value, freed]
          thread,     \* thread -> [pc, str, from, source, new]
          refCalls

refsVars == <<held, want, blocks, thread, refCalls>>

Strs == StrThreads \X {1, 2}
OwnedBy(t) == {t} \X {1, 2}
Junk == 0
Idle == [pc |-> "idle", str |-> <<>>, from |-> 0, source |-> 0, new |-> Junk]

At(t, pc) == thread[t].pc = pc
Goto(t, changes) == thread' = [thread EXCEPT ![t] = changes]

(* One string of each thread is a copy of the same string at first. *)
Init ==
  /\ held = [s \in Strs |-> IF s[2] = 1 THEN 1 ELSE 0]
  /\ want = [s \in Strs |-> CHOOSE v \in Values : TRUE]
  /\ blocks = <<[refs |-> Cardinality(StrThreads), freed |-> 0,
                 value |-> CHOOSE v \in Values : TRUE]>>
  /\ thread = [t \in StrThreads |-> Idle]
  /\ refCalls = 0

Called == refCalls < MaxCalls /\ refCalls' = refCalls + 1

(* incrementRefs, by the copy constructor *)
Copy(t) ==
  /\ At(t, "idle") /\ Called
  /\ \E s, to \in OwnedBy(t) :
       /\ held[s] # 0 /\ held[to] = 0
       /\ held' = [held EXCEPT ![to] = held[s]]
       /\ want' = [want EXCEPT ![to] = want[s]]
       /\ blocks' = [blocks EXCEPT ![held[s]].refs = @ + 1]
  /\ UNCHANGED thread

(* fetch_sub, and free by whoever took the last *)
decrementRefs(b) ==
  LET old == blocks[b].refs IN
  [blocks EXCEPT ![b] = [@ EXCEPT !.refs = old - 1,
                                  !.freed = IF old = 1 THEN @ + 1 ELSE @,
                                  !.value = IF old = 1 THEN Junk ELSE @]]

Destroy(t) ==
  /\ At(t, "idle")
  /\ \E s \in OwnedBy(t) : /\ held[s] # 0
                           /\ blocks' = decrementRefs(held[s])
                           /\ held' = [held EXCEPT ![s] = 0]
  /\ UNCHANGED <<want, thread, refCalls>>

(* A change begins: refs is read.  The new value is the caller's, or comes   *)
(* through a pointer into the string itself, taken before.                   *)
mutableDataLarge(t) ==
  /\ At(t, "idle") /\ Called
  /\ \E s \in OwnedBy(t), v \in Values, self \in BOOLEAN :
       /\ held[s] # 0
       /\ self => v = want[s]
       /\ Goto(t, [pc |-> IF blocks[held[s]].refs > 1 THEN "copy" ELSE "write",
                   str |-> s, from |-> held[s],
                   source |-> IF self THEN held[s] ELSE 0, new |-> v])
  /\ UNCHANGED <<held, want, blocks>>

(* unshare: podCopy into a new block, then decrementRefs of the old one *)
Unshare(t) ==
  /\ At(t, "copy")
  /\ blocks' = Append(blocks, [refs |-> 1, freed |-> 0,
                               value |-> blocks[thread[t].from].value])
  /\ held' = [held EXCEPT ![thread[t].str] = Len(blocks')]
  /\ Goto(t, [thread[t] EXCEPT !.pc = "release"])
  /\ UNCHANGED <<want, refCalls>>

Release(t) ==
  /\ At(t, "release")
  /\ blocks' = decrementRefs(thread[t].from)
  /\ Goto(t, [thread[t] EXCEPT !.pc = "write"])
  /\ UNCHANGED <<held, want, refCalls>>

(* assign's podMove *)
Source(t) == LET me == thread[t] IN
             IF me.source = 0 THEN me.new ELSE blocks[me.source].value
Write(t) ==
  LET s == thread[t].str IN
  /\ At(t, "write")
  /\ blocks' = [blocks EXCEPT ![held[s]].value = Source(t)]
  /\ want' = [want EXCEPT ![s] = Source(t)]
  /\ Goto(t, Idle)
  /\ UNCHANGED <<held, refCalls>>

Next == \E t \in StrThreads : \/ Copy(t) \/ Destroy(t) \/ mutableDataLarge(t)
                           \/ Unshare(t) \/ Release(t) \/ Write(t)

Spec == Init /\ [][Next]_refsVars

(* However the threads' steps fall, a change of one thread's string is never *)
(* seen in another's, a block lives as long as some string holds it, and the *)
(* last to let go frees it, once.                                            *)
RefsRight ==
  /\ \A s \in Strs : held[s] # 0 =>
       /\ blocks[held[s]].freed = 0
       /\ blocks[held[s]].value = want[s]
  /\ \A b \in DOMAIN blocks :
       LET letting == {t \in StrThreads :
                         At(t, "release") /\ thread[t].from = b}
       IN  /\ blocks[b].refs = Cardinality({s \in Strs : held[s] = b})
                               + Cardinality(letting)
           /\ blocks[b].freed = IF blocks[b].refs = 0 THEN 1 ELSE 0

(* FBString.h:1945, "s can alias this, we need to use podMove": a source in  *)
(* the string itself can still be read when assign reads it.                 *)
AliasReadable ==
  \A t \in StrThreads : At(t, "write") /\ thread[t].source # 0
                     => blocks[thread[t].source].freed = 0
=============================================================================
