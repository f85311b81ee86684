---------------------------- MODULE SharedMutex ----------------------------
(***************************************************************************)
(* SharedMutexImpl of accelerator/thread/SharedMutex.h: exclusive, upgrade *)
(* and shared locks in one futex word, with shared locks that may instead  *)
(* be recorded ("deferred") in a table of slots outside the word, and that *)
(* a writer moves into the word.                                           *)
(*                                                                         *)
(* A compare-and-swap loop is one step, the one in which it succeeds: what *)
(* it decides depends only on the value it swaps.  Spinning and yielding   *)
(* before the futex only reads.  Any wait but that of a promotion may be   *)
(* one with a timeout.  A thread holds at most one lock.                   *)
(***************************************************************************)
EXTENDS Integers, FiniteSets

CONSTANTS
  Users,            \* threads that use the mutex
  Table,            \* deferredReaders
  ReaderPriority,   \* SharedMutexReadPriority
  Readers           \* the reader count is modulo this, as kHasS is

VARIABLES
  word,     \* state_, by its fields
  slots,    \* what each slot holds of this mutex: "none", "token" or "less"
  th,       \* what each thread is doing
  role      \* the calls each thread makes, once and for all

mutexVars == <<word, slots, th, role>>

(* th[t].at     the lock t holds, or its place in a call                   *)
(* th[t].token  how it has, or wants, a shared lock                        *)
(* th[t].slot   the slot it is working with                                *)
(* th[t].seen   the slots it has been through                              *)
(* th[t].moved  movedSlotCount                                             *)
(* th[t].up     it is promoting an upgrade lock                            *)
(* th[t].mask   the waiters it is about to wake                            *)
(* th[t].back   where it goes afterwards                                   *)
(* th[t].sleep  "no", "asleep", or "about" to sleep on the word th[t].old  *)
None == "none"
Away == [at |-> "idle", token |-> None, slot |-> None, seen |-> {}, moved |-> 0,
         up |-> FALSE, mask |-> {}, back |-> "idle", sleep |-> "no",
         old |-> <<>>]

Free == [s |-> 0, mayDefer |-> FALSE, prevDefer |-> FALSE, hasE |-> FALSE,
         begunE |-> FALSE, hasU |-> FALSE, waitNotS |-> FALSE, waitE |-> 0,
         waitU |-> FALSE, waitS |-> FALSE]

(* The count does not wrap around: kHasS has 22 bits.  Slots are not named *)
(* like the ways to hold a shared lock.                                    *)
Sizes ==
  /\ IsFiniteSet(Users) /\ IsFiniteSet(Table)
  /\ Readers \in Nat /\ Cardinality(Users) < Readers
  /\ ReaderPriority \in BOOLEAN
  /\ Table \cap {None, "token", "less", "inline"} = {}

ASSUME SizesAssumption == Sizes

HasSolo(w) == w.hasE \/ w.begunE \/ w.hasU

Count(w, n) == [w EXCEPT !.s = (@ + n) % Readers]

-----------------------------------------------------------------------------
(* Waiting *)

(* The bits a thread wants to be zero where it is.                         *)
Blocked(t, w) ==
  CASE th[t].at = "lock"    -> ~th[t].up /\ HasSolo(w)
    [] th[t].at = "drain"   -> w.s # 0
    [] th[t].at = "shared"  -> w.hasE
    [] th[t].at = "upgrade" -> HasSolo(w)
    [] OTHER                -> FALSE

WaitMask(t) ==
  CASE th[t].at = "lock"    -> "E"
    [] th[t].at = "drain"   -> "NotS"
    [] th[t].at = "shared"  -> "S"
    [] th[t].at = "upgrade" -> "U"
    [] OTHER                -> None

Waiters(w) ==
  {m \in {"NotS", "E", "U", "S"} :
     CASE m = "NotS" -> w.waitNotS
       [] m = "E"    -> w.waitE > 0
       [] m = "U"    -> w.waitU
       [] m = "S"    -> w.waitS}

SetWaiter(w, m) ==
  CASE m = "NotS" -> [w EXCEPT !.waitNotS = TRUE]
    [] m = "E"    -> [w EXCEPT !.waitE = IF @ = 0 THEN 1 ELSE 2]
    [] m = "U"    -> [w EXCEPT !.waitU = TRUE]
    [] m = "S"    -> [w EXCEPT !.waitS = TRUE]

ClearWaiters(w, M) ==
  [w EXCEPT !.waitNotS = @ /\ "NotS" \notin M,
            !.waitE = IF "E" \in M THEN 0 ELSE @,
            !.waitU = @ /\ "U" \notin M,
            !.waitS = @ /\ "S" \notin M]

(* futexWaitForZeroBits: record the waiter in the word,                    *)
Announce(t) ==
  /\ th[t].sleep = "no" /\ Blocked(t, word)
  /\ word' = SetWaiter(word, WaitMask(t))
  /\ th' = [th EXCEPT ![t].sleep = "about", ![t].old = <<word'>>]
  /\ UNCHANGED slots

(* and sleep, unless the word has changed.                                 *)
FutexWait(t) ==
  /\ th[t].sleep = "about"
  /\ th' = [th EXCEPT ![t].sleep = IF <<word>> = th[t].old THEN "asleep"
                                  ELSE "no",
                      ![t].old = <<>>]
  /\ UNCHANGED <<word, slots>>

Interrupted(t) ==
  /\ th[t].sleep = "asleep"
  /\ th' = [th EXCEPT ![t].sleep = "no"]
  /\ UNCHANGED <<word, slots>>

Asleep(M) == {t \in Users : th[t].sleep = "asleep" /\ WaitMask(t) \in M}

WakeWriterFirst(t, w, M, b) ==   \* mutant
  LET found == Waiters(w) \cap M IN
  th' = [th EXCEPT ![t] =
    IF found = {} THEN [b EXCEPT !.mask = {}]
    ELSE [b EXCEPT !.at = IF "E" \in found /\ w.waitE = 2
                            THEN "wake one" ELSE "clear",
                   !.mask = M, !.back = b.at]]

(* wakeRegisteredWaiters, from the word w that a thread has just written,  *)
(* and then on to b.                                                       *)
ThenWake(t, w, M, b) ==
  LET found == Waiters(w) \cap M IN
  th' = [th EXCEPT ![t] =
    IF found = {} THEN [b EXCEPT !.mask = {}]
    ELSE [b EXCEPT !.at = IF found = {"E"} /\ w.waitE = 2
                            THEN "wake one" ELSE "clear",
                   !.mask = M, !.back = b.at]]

Woken(t) == [th[t] EXCEPT !.at = th[t].back, !.back = "idle", !.mask = {}]

(* Several writers wait and nobody else: wake one of them and leave the    *)
(* bits.  If none was asleep, fall back to clearing the bits.              *)
WakeOne(t) ==
  /\ th[t].at = "wake one"
  /\ \/ \E v \in Asleep({"E"}) :
          th' = [th EXCEPT ![v].sleep = "no", ![t] = Woken(t)]
     \/ /\ Asleep({"E"}) = {}
        /\ th' = [th EXCEPT ![t].at = "clear"]
  /\ UNCHANGED <<word, slots>>

ClearBits(t) ==
  /\ th[t].at = "clear"
  /\ word' = ClearWaiters(word, th[t].mask)
  /\ th' = [th EXCEPT ![t] =
              IF Waiters(word) \cap th[t].mask = {} THEN Woken(t)
              ELSE [th[t] EXCEPT !.at = "wake all"]]
  /\ UNCHANGED slots

WakeAll(t) ==
  /\ th[t].at = "wake all"
  /\ th' = [u \in Users |->
              IF u \in Asleep(th[t].mask) THEN [th[u] EXCEPT !.sleep = "no"]
              ELSE IF u = t THEN Woken(t) ELSE th[u]]
  /\ UNCHANGED <<word, slots>>

-----------------------------------------------------------------------------
(* Exclusive locks *)

Ready(t) == th[t].sleep = "no"
Enter(t, from, to) ==
  /\ th[t].at = from
  /\ th' = [th EXCEPT ![t].at = to, ![t].up = (from = "U")]
  /\ UNCHANGED <<word, slots>>

Lock(t)                 == Enter(t, "idle", "lock")
UnlockUpgradeAndLock(t) == Enter(t, "U", "lock")
LockUpgrade(t)          == Enter(t, "idle", "upgrade")

(* lockExclusiveImpl: kHasE, or kBegunE while readers may go first.  A     *)
(* writer that turns deferral off has to move the deferred readers.  What  *)
(* it has seen of the reader count here decides whether it will wait for   *)
(* it, unless it moves some.                                               *)
LockExclusive(t) ==
  LET begun == ReaderPriority /\ (word.mayDefer \/ word.s # 0)
      then  == IF word.s = 0 /\ ~begun THEN "E" ELSE "drain"
  IN
  /\ th[t].at = "lock" /\ Ready(t) /\ ~Blocked(t, word)
  /\ word' = [word EXCEPT !.hasE = @ \/ ~begun, !.begunE = @ \/ begun,
                          !.hasU = FALSE, !.mayDefer = FALSE,
                          !.prevDefer = @ \/ word.mayDefer]
  /\ th' = [th EXCEPT ![t].at = IF word.mayDefer THEN "apply" ELSE then,
                      ![t].back = IF word.mayDefer THEN then ELSE "idle",
                      ![t].up = @ /\ (word.mayDefer \/ then = "drain")]
  /\ UNCHANGED slots

(* applyDeferredReaders: one slot,                                         *)
ApplySlot(t, j) ==
  /\ th[t].at = "apply" /\ j \notin th[t].seen
  /\ slots' = [slots EXCEPT ![j] = None]
  /\ th' = [th EXCEPT ![t].seen = @ \cup {j},
                      ![t].moved = IF slots[j] = None THEN @ ELSE @ + 1]
  /\ UNCHANGED word

(* and all of them into the word.                                          *)
ApplyDone(t) ==
  /\ th[t].at = "apply" /\ th[t].seen = Table
  /\ word' = Count(word, th[t].moved)
  /\ LET to == IF th[t].moved = 0 THEN th[t].back
               ELSE IF word'.s = 0 /\ ~ReaderPriority THEN "E" ELSE "drain"
     IN  th' = [th EXCEPT ![t] = [Away EXCEPT
                  !.at = to, !.up = th[t].up /\ to = "drain"]]
  /\ UNCHANGED slots

(* No reader is left: the lock is taken.                                   *)
Drained(t) ==
  /\ th[t].at = "drain" /\ Ready(t) /\ word.s = 0
  /\ word' = [word EXCEPT !.begunE = FALSE, !.hasE = TRUE]
  /\ th' = [th EXCEPT ![t] = [Away EXCEPT !.at = "E"]]
  /\ UNCHANGED slots

(* A wait ends because of its timeout; a writer that had begun gives up.   *)
TimeOut(t) ==
  /\ WaitMask(t) # None /\ ~th[t].up
  /\ Ready(t) => Blocked(t, word)
  /\ \/ /\ th[t].at # "drain"
        /\ th' = [th EXCEPT ![t] = Away]
        /\ UNCHANGED word
     \/ /\ th[t].at = "drain"
        /\ word' = [word EXCEPT !.prevDefer = FALSE, !.hasE = FALSE,
                                !.begunE = FALSE, !.waitNotS = FALSE]
        /\ ThenWake(t, word', {"E", "U", "S"}, Away)
  /\ UNCHANGED slots

Unlock(t) ==
  /\ th[t].at = "E"
  /\ word' = [word EXCEPT !.waitNotS = FALSE, !.prevDefer = FALSE,
                          !.hasE = FALSE]
  /\ ThenWake(t, word', {"E", "U", "S"}, Away)
  /\ UNCHANGED slots

(* The downgrades clear the wait bits in the same step and wake all.       *)
Downgrade(t, w, M, b) ==
  /\ th[t].at = "E"
  /\ word' = w
  /\ th' = [th EXCEPT ![t] =
              IF Waiters(word) \cap M = {} THEN b
              ELSE [b EXCEPT !.at = "wake all", !.mask = M, !.back = b.at]]
  /\ UNCHANGED slots

UnlockAndLockShared(t, k) ==
  Downgrade(t, Count(ClearWaiters([word EXCEPT !.prevDefer = FALSE,
                                               !.hasE = FALSE],
                                  {"NotS", "E", "U", "S"}), 1),
            {"E", "U", "S"}, [Away EXCEPT !.at = "S", !.token = k])

UnlockAndLockUpgrade(t) ==
  Downgrade(t, ClearWaiters([word EXCEPT !.prevDefer = FALSE, !.hasE = FALSE,
                                         !.hasU = TRUE], {"NotS", "S"}),
            {"S"}, [Away EXCEPT !.at = "U"])

-----------------------------------------------------------------------------
(* Upgrade locks *)

LockUpgradeImpl(t) ==
  /\ th[t].at = "upgrade" /\ Ready(t) /\ ~HasSolo(word)
  /\ word' = [word EXCEPT !.hasU = TRUE]
  /\ th' = [th EXCEPT ![t].at = "U"]
  /\ UNCHANGED slots

UnlockUpgrade(t) ==
  /\ th[t].at = "U"
  /\ word' = [word EXCEPT !.hasU = FALSE]
  /\ ThenWake(t, word', {"E", "U"}, Away)
  /\ UNCHANGED slots

UnlockUpgradeAndLockShared(t, k) ==
  /\ th[t].at = "U"
  /\ word' = Count([word EXCEPT !.hasU = FALSE], 1)
  /\ ThenWake(t, word', {"E", "U"}, [Away EXCEPT !.at = "S", !.token = k])
  /\ UNCHANGED slots

-----------------------------------------------------------------------------
(* Shared locks *)

(* With a token, or without.                                               *)
LockShared(t, k) ==
  /\ th[t].at = "idle"
  /\ th' = [th EXCEPT ![t].at = "shared", ![t].token = k]
  /\ UNCHANGED <<word, slots>>

(* lockSharedImpl counts the reader in the word: it need not defer, or has *)
(* found no empty slot; readers of other mutexes use the table too.        *)
LockInline(t) ==
  /\ th[t].at = "shared" /\ Ready(t) /\ ~word.hasE
  /\ word' = Count(word, 1)
  /\ th' = [th EXCEPT ![t].at = "S",
                      ![t].token = IF @ = "token" THEN "inline" ELSE @]
  /\ UNCHANGED slots

(* It has found an empty slot, and allows deferred readers if need be.     *)
FindSlot(t, j) ==
  /\ th[t].at = "shared" /\ Ready(t) /\ ~word.hasE
  /\ word.mayDefer \/ (word.s # 0 /\ ~(ReaderPriority /\ word.begunE))
  /\ slots[j] = None
  /\ word' = [word EXCEPT !.mayDefer = TRUE]
  /\ th' = [th EXCEPT ![t].at = "slot", ![t].slot = j]
  /\ UNCHANGED slots

TakeSlot(t) ==
  /\ th[t].at = "slot"
  /\ \/ /\ slots[th[t].slot] = None
        /\ slots' = [slots EXCEPT ![th[t].slot] = th[t].token]
        /\ th' = [th EXCEPT ![t].at = "check"]
     \/ /\ slots[th[t].slot] # None
        /\ th' = [th EXCEPT ![t].at = "shared", ![t].slot = None]
        /\ UNCHANGED slots
  /\ UNCHANGED word

CheckNothing(t) ==   \* mutant
  /\ th[t].at = "check"
  /\ th' = [th EXCEPT ![t].at = "S", ![t].slot = None,
                      ![t].token = IF @ = "token" THEN th[t].slot ELSE @]
  /\ UNCHANGED <<word, slots>>

(* A writer may have come and not seen the slot: then take it back.        *)
CheckSlot(t) ==
  /\ th[t].at = "check"
  /\ \/ /\ word.mayDefer
        /\ th' = [th EXCEPT ![t].at = "S", ![t].slot = None,
                            ![t].token = IF @ = "token" THEN th[t].slot ELSE @]
     \/ /\ ~word.mayDefer
        /\ th' = [th EXCEPT ![t].back = "shared", ![t].at =
                    IF th[t].token = "less" THEN "search" ELSE "release"]
  /\ UNCHANGED <<word, slots>>

(* unlock_shared: in the word, in its slot, or, without a token, in any    *)
(* slot that holds a reader without one.                                   *)
UnlockShared(t) ==
  /\ th[t].at = "S"
  /\ th' = [th EXCEPT
       ![t].slot = IF th[t].token \in Table THEN th[t].token ELSE None,
       ![t].at = IF th[t].token \in Table THEN "release"
                 ELSE IF th[t].token = "less" /\ (word.mayDefer \/ word.prevDefer)
                      THEN "search" ELSE "decrement"]
  /\ UNCHANGED <<word, slots>>

(* Where a call goes that has given up its place: to idle, or to try again.*)
GoBack(t) == [Away EXCEPT !.at = th[t].back,
                          !.token = IF th[t].back = "shared" THEN th[t].token
                                    ELSE None]

(* tryUnlockSharedDeferred                                                 *)
ReleaseSlot(t) ==
  /\ th[t].at = "release"
  /\ \/ /\ slots[th[t].slot] = "token"
        /\ slots' = [slots EXCEPT ![th[t].slot] = None]
        /\ th' = [th EXCEPT ![t] = GoBack(t)]
     \/ /\ slots[th[t].slot] # "token"
        /\ th' = [th EXCEPT ![t].at = "decrement", ![t].slot = None]
        /\ UNCHANGED slots
  /\ UNCHANGED word

(* tryUnlockTokenlessSharedDeferred, which starts at the slot this thread  *)
(* has just taken, if it takes that back, and anywhere otherwise: its hint *)
(* is common to all mutexes.                                               *)
SearchSlot(t, j) ==
  /\ th[t].at = "search" /\ j \notin th[t].seen
  /\ th[t].slot \in {None, j} \cup th[t].seen
  /\ \/ /\ slots[j] = "less"
        /\ slots' = [slots EXCEPT ![j] = None]
        /\ th' = [th EXCEPT ![t] = GoBack(t)]
     \/ /\ slots[j] # "less"
        /\ th' = [th EXCEPT ![t].seen = @ \cup {j}]
        /\ UNCHANGED slots
  /\ UNCHANGED word

SearchFailed(t) ==
  /\ th[t].at = "search" /\ th[t].seen = Table
  /\ th' = [th EXCEPT ![t].at = "decrement", ![t].seen = {}, ![t].slot = None]
  /\ UNCHANGED <<word, slots>>

(* unlockSharedInline: the last reader wakes the writer that drains.       *)
UnlockSharedInline(t) ==
  /\ th[t].at = "decrement"
  /\ word' = Count(word, -1)
  /\ ThenWake(t, word', IF word'.s = 0 THEN {"NotS"} ELSE {}, GoBack(t))
  /\ UNCHANGED slots

-----------------------------------------------------------------------------

MutexInit ==
  /\ word = Free
  /\ slots = [j \in Table |-> None]
  /\ th = [t \in Users |-> Away]
  /\ role \in [Users -> {"writer", "upgrader", "token", "less"}]

(* A thread goes on with a call it has begun.                              *)
GoesOn(t) ==
  \/ Announce(t) \/ FutexWait(t) \/ WakeOne(t) \/ ClearBits(t) \/ WakeAll(t)
  \/ LockExclusive(t) \/ ApplyDone(t) \/ Drained(t) \/ LockUpgradeImpl(t)
  \/ LockInline(t) \/ TakeSlot(t) \/ CheckSlot(t)
  \/ ReleaseSlot(t) \/ SearchFailed(t) \/ UnlockSharedInline(t)
  \/ \E j \in Table : ApplySlot(t, j) \/ FindSlot(t, j) \/ SearchSlot(t, j)

(* It makes another call: the threads divide the calls among them.         *)
Writes(t) ==
  /\ role[t] = "writer"
  /\ \/ Lock(t) \/ Unlock(t)
     \/ \E k \in {"inline", "less"} : UnlockAndLockShared(t, k)

Upgrades(t) ==
  /\ role[t] = "upgrader"
  /\ \/ LockUpgrade(t) \/ UnlockUpgrade(t) \/ UnlockUpgradeAndLock(t)
     \/ Unlock(t) \/ UnlockAndLockUpgrade(t)
     \/ \E k \in {"inline", "less"} : UnlockUpgradeAndLockShared(t, k)

Shares(t) == role[t] \in {"token", "less"} /\ LockShared(t, role[t])

MutexNext ==
  /\ \E t \in Users :
       GoesOn(t) \/ Writes(t) \/ Upgrades(t) \/ Shares(t) \/ UnlockShared(t)
       \/ TimeOut(t) \/ Interrupted(t)
  /\ UNCHANGED role

MutexSpec == MutexInit /\ [][MutexNext]_mutexVars

-----------------------------------------------------------------------------

MutexTypeOK ==
  /\ word.s \in 0..(Readers - 1) /\ word.waitE \in 0..2
  /\ slots \in [Table -> {None, "token", "less"}]
  /\ \A t \in Users :
       th[t].at \in {"idle", "S", "U", "E", "lock", "apply", "drain", "upgrade",
                     "shared", "slot", "check", "release", "search",
                     "decrement", "wake one", "clear", "wake all"}

(* The lock a thread has while it still wakes others.                      *)
Place(t) == IF th[t].at \in {"wake one", "clear", "wake all"} THEN th[t].back
            ELSE th[t].at

HoldsU(t) == Place(t) = "U" \/ (th[t].at = "lock" /\ th[t].up)

(* A writer is alone, and there is one upgrader at most, also while it is  *)
(* being promoted.                                                         *)
Exclusion == \A t, v \in Users : t # v =>
  /\ Place(t) = "E" => Place(v) \notin {"E", "S"} /\ ~HoldsU(v)
  /\ ~(HoldsU(t) /\ HoldsU(v))

(* Threads that have a shared lock, or a slot to give back.                *)
Counted == {t \in Users : Place(t) \in {"S", "check", "release", "search",
                                        "decrement"}}

Recorded == {j \in Table : slots[j] # None}

(* Every shared lock is recorded once: in the word, in a slot, or with the *)
(* writer that is moving it.  Threads release each other's records, and a  *)
(* search may miss the only one, so that the count can pass below zero     *)
(* while a slot makes up for it.                                           *)
Balanced ==
  LET moving == {t \in Users : th[t].at = "apply"} IN
  \E n \in 0..Cardinality(Table) :
    /\ moving # {} => \A t \in moving : th[t].moved = n
    /\ moving = {} => n = 0
    /\ (word.s + n + Cardinality(Recorded)) % Readers = Cardinality(Counted)

(* The assertions of the unlocking functions, of the draining writer and   *)
(* of the destructor.                                                      *)
Asserted ==
  /\ \A t \in Users :
       /\ th[t].at = "E" => word.hasE /\ word.s = 0 /\ ~word.mayDefer
                            /\ ~word.begunE /\ ~word.hasU
       /\ HoldsU(t) => word.hasU /\ ~word.hasE /\ ~word.begunE /\ ~word.waitNotS
       /\ th[t].at \in {"apply", "drain"}
            => (word.hasE \/ word.begunE) /\ ~word.hasU
       /\ th[t].at = "S" /\ word.prevDefer => word.hasE \/ word.begunE
       /\ th[t].at = "decrement" /\ word.s = 0
            => word.hasE \/ word.begunE \/ word.mayDefer
  /\ (\A t \in Users : th[t].at = "idle") =>
       ~HasSolo(word) /\ ~word.prevDefer /\ \A j \in Table : slots[j] # "token"

(* Locks exclude each other, are counted, and meet the assertions.         *)
MutexSound == MutexTypeOK /\ Exclusion /\ Balanced /\ Asserted

AtRest(t) ==
  th[t].at \in {"idle", "S", "U", "E"} \/ th[t].sleep = "asleep"

(* No wakeup is lost: when every thread sleeps or has returned, those that *)
(* sleep are kept by a lock that is held, and are announced to whoever     *)
(* releases it.                                                            *)
SleepersAreOwedWake ==
  (\A t \in Users : AtRest(t)) =>
    \A t \in Users : th[t].sleep = "asleep" =>
      Blocked(t, word) /\ WaitMask(t) \in Waiters(word)

=============================================================================
