---------------------------- MODULE Synchronized ----------------------------
(***************************************************************************)
(* Synchronized<T> of accelerator/thread, the LockedPtrs to it, and the    *)
(* lock policies they use.  A call is a list of steps: mutex operations,   *)
(* which other threads interleave with, and loads and stores of the data.  *)
(*                                                                         *)
(* The user of the module takes a lock only behind those it holds, in the  *)
(* order of addresses, does not use a LockedPtr that a ScopedUnlocker will *)
(* restore, and unlocks no LockedPtr for a scope that came from another    *)
(* mode: its policy's lock() is a conversion (LockTraits.h:551).           *)
(***************************************************************************)
EXTENDS Integers, Sequences

CONSTANTS Owners,         \* the threads
          MaxSyncCalls,   \* bound: the calls that take locks
          MaxDatum        \* bound: what a datum is incremented to

VARIABLES grants,   \* what each thread holds of each mutex, by mode
          datum,    \* the data
          whole,    \* the data, if each call were one step
          owner,    \* the threads: LockedPtrs, steps to do, values loaded
          legal,    \* no step was wrong so far
          syncCalls

syncVars == <<grants, datum, whole, owner, legal, syncCalls>>

Objects == 1 .. 2   \* in the order of their addresses
Modes   == {"w", "s", "u"}
Null    == 0
Moved   == 9        \* what is left of a datum that was moved

(* What the operations of a mutex turn into what: nothing, exclusive,      *)
(* shared or upgrade.                                                      *)
MutexOp ==
  [lock                           |-> [from |-> "none", to |-> "w"],
   unlock                         |-> [from |-> "w", to |-> "none"],
   lock_shared                    |-> [from |-> "none", to |-> "s"],
   unlock_shared                  |-> [from |-> "s", to |-> "none"],
   lock_upgrade                   |-> [from |-> "none", to |-> "u"],
   unlock_upgrade                 |-> [from |-> "u", to |-> "none"],
   unlock_upgrade_and_lock        |-> [from |-> "u", to |-> "w"],
   unlock_and_lock_upgrade        |-> [from |-> "w", to |-> "u"],
   unlock_upgrade_and_lock_shared |-> [from |-> "u", to |-> "s"],
   unlock_and_lock_shared         |-> [from |-> "w", to |-> "s"]]

(* The lock policies: what lock() and unlock() of a LockedPtr call.        *)
Policy ==
  [Exclusive |-> [lock |-> "lock", unlock |-> "unlock"],
   Shared    |-> [lock |-> "lock_shared", unlock |-> "unlock_shared"],
   Upgrade   |-> [lock |-> "lock_upgrade", unlock |-> "unlock_upgrade"],
   FromUpgradeToExclusive |->
     [lock |-> "unlock_upgrade_and_lock", unlock |-> "unlock"],
   FromExclusiveToUpgrade |->
     [lock |-> "unlock_and_lock_upgrade", unlock |-> "unlock_upgrade"],
   FromUpgradeToShared |->
     [lock |-> "unlock_upgrade_and_lock_shared", unlock |-> "unlock_shared"],
   FromExclusiveToShared |->
     [lock |-> "unlock_and_lock_shared", unlock |-> "unlock_shared"]]

ModeOf(policy) == MutexOp[Policy[policy].unlock].from
Basic == {"Exclusive", "Shared", "Upgrade"}

Holds(t, o) == \E m \in Modes : grants[o][t][m] > 0
HoldsNone(t) == \A o \in Objects : ~Holds(t, o)

(* A mutex admits one exclusive holder alone, or one with the right to     *)
(* become it among those that share.                                       *)
Admits(grant, mode) ==
  LET taken(m) == \E t \in Owners : grant[t][m] > 0
  IN  CASE mode = "w" -> ~taken("w") /\ ~taken("u") /\ ~taken("s")
        [] mode = "u" -> ~taken("w") /\ ~taken("u")
        [] mode = "s" -> ~taken("w")
        [] mode = "none" -> TRUE

Less(grant, t, m) ==
  IF m = "none" THEN grant ELSE [grant EXCEPT ![t][m] = @ - 1]
More(grant, t, m) ==
  IF m = "none" THEN grant ELSE [grant EXCEPT ![t][m] = @ + 1]

Nothing == [o \in Objects |-> 0]
NullPtr == [parent |-> Null, policy |-> "Exclusive"]
NoUnlocker == [ptr |-> Null, parent |-> Null, policy |-> "Exclusive"]

SyncInit ==
  /\ grants = [o \in Objects |-> [t \in Owners |-> [m \in Modes |-> 0]]]
  /\ datum = [o \in Objects |-> o] /\ whole = datum
  /\ owner = [t \in Owners |-> [ptr |-> <<NullPtr, NullPtr>>, todo |-> <<>>,
                                unlocker |-> NoUnlocker,
                                loaded |-> Nothing]]
  /\ legal = TRUE /\ syncCalls = 0

-----------------------------------------------------------------------------
(* Steps *)

Ptr(o, policy) == [parent |-> o, policy |-> policy]

(* A mutex operation, and what it makes of which LockedPtr.                *)
Mutex(do, o, op, p, policy) ==
  [do |-> do, o |-> o, op |-> op, p |-> p, ptr |-> Ptr(o, policy)]
Take(o, policy, p) == <<Mutex("mutex", o, Policy[policy].lock, p, policy)>>
TryFor(o, policy, p) == <<Mutex("try", o, Policy[policy].lock, p, policy)>>
Drop(o, policy) == <<Mutex("mutex", o, Policy[policy].unlock, Null, policy)>>

(* A change of the data: what each datum becomes, from which one.  It      *)
(* loads all that it needs and then stores one after the other.            *)
Same      == [o \in Objects |-> [from |-> o, plus |-> 0]]
Left      == [from |-> Null, plus |-> Moved]
Another   == [from |-> Null, plus |-> 0]
Result(change, o, data) ==
  LET c == change[o]
  IN  IF c.from = Null THEN c.plus ELSE data[c.from] + c.plus
Changed(change) == {o \in Objects : change[o] # Same[o]}
Needed(change)  == {change[o].from : o \in Changed(change)} \ {Null}
Each(objects, Step(_)) ==
  (IF 1 \in objects THEN <<Step(1)>> ELSE <<>>) \o
  (IF 2 \in objects THEN <<Step(2)>> ELSE <<>>)
Change(change) ==
  LET first == CHOOSE o \in Changed(change) : \A q \in Changed(change) : o =< q
      load(o)  == [do |-> "load", o |-> o]
      store(o) == [do |-> "store", o |-> o, change |-> change,
                   first |-> o = first]
  IN  Each(Needed(change), load) \o Each(Changed(change), store)

(* The guards of a call on two objects: a first, then b; the last one goes *)
(* first.                                                                  *)
Guarded(a, pa, b, pb, body) ==
  Take(a, pa, Null) \o Take(b, pb, Null) \o body \o Drop(b, pb) \o Drop(a, pa)

InArgumentOrder(a, pa, b, pb, body) == Guarded(a, pa, b, pb, body)  \* mutant
InOrder(a, pa, b, pb, body) ==
  IF a < b THEN Guarded(a, pa, b, pb, body) ELSE Guarded(b, pb, a, pa, body)

(* A call, whose steps follow.                                             *)
Begin(t, steps) ==
  /\ owner[t].todo = <<>> /\ syncCalls < MaxSyncCalls
  /\ syncCalls' = syncCalls + 1
  /\ owner' = [owner EXCEPT ![t].todo = steps]
  /\ UNCHANGED <<grants, datum, whole, legal>>

-----------------------------------------------------------------------------
(* Calls on a Synchronized *)

(* operator=(const Synchronized&): the source is const, and shared.        *)
CopyAssign(t, a, b) ==
  /\ HoldsNone(t)
  /\ Begin(t, IF a = b THEN <<>> ELSE
                InOrder(a, "Exclusive", b, "Shared",
                        Change([Same EXCEPT ![a] = Same[b]])))

MoveAssign(t, a, b) ==
  /\ HoldsNone(t)
  /\ Begin(t, IF a = b THEN <<>> ELSE
                InOrder(a, "Exclusive", b, "Exclusive",
                        Change([Same EXCEPT ![a] = Same[b], ![b] = Left])))

Swap(t, a, b) ==
  /\ HoldsNone(t)
  /\ Begin(t, IF a = b THEN <<>> ELSE
                InOrder(a, "Exclusive", b, "Exclusive",
                        Change([Same EXCEPT ![a] = Same[b], ![b] = Same[a]])))

(* copy(), and the copy constructor of another Synchronized.               *)
Copy(t, a) ==
  /\ HoldsNone(t)
  /\ Begin(t, Take(a, "Shared", Null) \o <<[do |-> "load", o |-> a]>>
                                \o Drop(a, "Shared"))

(* operator=(T) and swap(T&), which leave another value; the constructor   *)
(* that moves the datum into another Synchronized, which leaves none.      *)
Replace(t, a, left) ==
  /\ HoldsNone(t)
  /\ Begin(t, Take(a, "Exclusive", Null)
                \o <<[do |-> "load", o |-> a]>>
                \o Change([Same EXCEPT ![a] = left])
                \o Drop(a, "Exclusive"))

(* acquireLocked(), with the policy that each argument's constness gives;  *)
(* given one object twice it waits for itself, which is the user's to      *)
(* avoid.                                                                  *)
AcquireLocked(t, a, pa, b, pb) ==
  /\ HoldsNone(t) /\ owner[t].unlocker = NoUnlocker /\ a # b
  /\ Begin(t, IF a < b THEN Take(a, pa, 1) \o Take(b, pb, 2)
                       ELSE Take(b, pb, 2) \o Take(a, pa, 1))

-----------------------------------------------------------------------------
(* LockedPtrs *)

Usable(t, p) == owner[t].unlocker.ptr # p
Parent(t, p) == owner[t].ptr[p].parent
PolicyOf(t, p) == owner[t].ptr[p].policy
FirstNull(t, p) ==
  /\ Usable(t, p) /\ Parent(t, p) = Null
  /\ p = 1 \/ ~Usable(t, 1) \/ Parent(t, 1) # Null
OnlyHolds(t, o) == \A q \in Objects \ {o} : ~Holds(t, q)

(* lock(), wlock(), rlock() and ulock(), and their forms with a timeout,   *)
(* into a LockedPtr that is null.                                          *)
Lock(t, p, o, policy) ==
  /\ FirstNull(t, p)
  /\ \A q \in Objects : Holds(t, q) => q < o
  /\ Begin(t, Take(o, policy, p))

LockFor(t, p, o, policy) ==
  /\ FirstNull(t, p)
  /\ \A q \in Objects : Holds(t, q) => q < o
  /\ Begin(t, TryFor(o, policy, p))

(* Steps of LockedPtrs that are not counted.                               *)
Goes(t, ptr, steps) ==
  /\ owner[t].todo = <<>>
  /\ owner' = [owner EXCEPT ![t].ptr = ptr, ![t].todo = steps]
  /\ UNCHANGED <<grants, datum, whole, legal, syncCalls>>

Nulled(t, p) == [owner[t].ptr EXCEPT ![p] = NullPtr]

(* unlock(), and the destructor.                                           *)
Unlock(t, p) ==
  /\ Parent(t, p) # Null
  /\ Goes(t, Nulled(t, p), Drop(Parent(t, p), PolicyOf(t, p)))

(* operator=(LockedPtr&&): p lets go of its lock and takes over q's, which *)
(* is none if p is q.                                                      *)
MovePtr(t, p, q) ==
  /\ Usable(t, p) /\ Usable(t, q) /\ Parent(t, q) # Null
  /\ Parent(t, p) # Null => PolicyOf(t, p) = PolicyOf(t, q)
  /\ Goes(t, [owner[t].ptr EXCEPT ![p] = owner[t].ptr[q], ![q] = NullPtr],
           IF Parent(t, p) = Null THEN <<>>
           ELSE Drop(Parent(t, p), PolicyOf(t, p)))

(* moveFromUpgradeToWrite() and its like: into a new LockedPtr.            *)
Conversion ==
  {[from |-> "u", to |-> "FromUpgradeToExclusive"],
   [from |-> "w", to |-> "FromExclusiveToUpgrade"],
   [from |-> "u", to |-> "FromUpgradeToShared"],
   [from |-> "w", to |-> "FromExclusiveToShared"]}

Convert(t, p, q, conversion) ==
  LET o == Parent(t, p)
  IN  /\ p # q /\ Usable(t, q) /\ Parent(t, q) = Null
      /\ o # Null /\ ModeOf(PolicyOf(t, p)) = conversion.from
      /\ OnlyHolds(t, o)
      /\ Goes(t, Nulled(t, p), Take(o, conversion.to, q))

(* scopedUnlock(), and the destructor of the ScopedUnlocker.               *)
ScopedUnlock(t, p) ==
  LET o == Parent(t, p)
  IN  /\ o # Null /\ PolicyOf(t, p) \in Basic
      /\ owner[t].unlocker = NoUnlocker /\ owner[t].todo = <<>>
      /\ owner' = [owner EXCEPT ![t] =
           [@ EXCEPT !.ptr = Nulled(t, p), !.todo = Drop(o, PolicyOf(t, p)),
                     !.unlocker = [ptr |-> p, parent |-> o,
                                   policy |-> PolicyOf(t, p)]]]
      /\ UNCHANGED <<grants, datum, whole, legal, syncCalls>>

Reacquire(t) ==
  LET u == owner[t].unlocker
  IN  /\ u # NoUnlocker /\ owner[t].todo = <<>>
      /\ \A q \in Objects : Holds(t, q) => q < u.parent
      /\ owner' = [owner EXCEPT ![t] =
           [@ EXCEPT !.unlocker = NoUnlocker,
                     !.todo = Take(u.parent, u.policy, u.ptr)]]
      /\ UNCHANGED <<grants, datum, whole, legal, syncCalls>>

(* The user adds one to the datum behind a LockedPtr.                      *)
Increment(t, p) ==
  LET o == Parent(t, p)
  IN  /\ o # Null /\ ModeOf(PolicyOf(t, p)) = "w"
      /\ whole[o] < MaxDatum
      /\ Goes(t, owner[t].ptr, Change([Same EXCEPT ![o].plus = 1]))

-----------------------------------------------------------------------------
(* The steps of the calls *)

Step(t) == Head(owner[t].todo)
Op(t)   == MutexOp[Step(t).op]
Forward(me) ==   \* the next step; what a call loaded is gone with it
  [me EXCEPT !.todo = Tail(@),
             !.loaded = IF Len(me.todo) = 1 THEN Nothing ELSE @]
Free(t) == Less(grants[Step(t).o], t, Op(t).from)

CanGo(t) ==
  owner[t].todo # <<>> /\
    (Step(t).do = "mutex" => Admits(Free(t), Op(t).to))

Grant(t) ==
  /\ Admits(Free(t), Op(t).to)
  /\ legal' = (legal /\ (Op(t).from # "none" =>
                          grants[Step(t).o][t][Op(t).from] > 0))
  /\ grants' = [grants EXCEPT ![Step(t).o] = More(Free(t), t, Op(t).to)]
  /\ owner' = [owner EXCEPT ![t] =
       IF Step(t).p = Null THEN Forward(@)
       ELSE [Forward(@) EXCEPT !.ptr[Step(t).p] = Step(t).ptr]]
  /\ UNCHANGED <<datum, whole>>

(* A mutex operation; try_lock_for() gives up only while it has to wait,   *)
(* and its LockedPtr stays null.                                           *)
MutexStep(t) == Step(t).do \in {"mutex", "try"} /\ Grant(t)
TimesOut(t) ==
  /\ Step(t).do = "try" /\ ~Admits(Free(t), Op(t).to)
  /\ owner' = [owner EXCEPT ![t].todo = <<>>]
  /\ UNCHANGED <<grants, datum, whole, legal>>

LoadStep(t) ==
  /\ Step(t).do = "load"
  /\ legal' = (legal /\ Holds(t, Step(t).o))
  /\ owner' = [owner EXCEPT ![t].todo = Tail(@),
                            ![t].loaded[Step(t).o] = datum[Step(t).o]]
  /\ UNCHANGED <<grants, datum, whole>>

(* With its first store the whole call takes effect.                       *)
StoreStep(t) ==
  LET h == Step(t)
  IN  /\ h.do = "store"
      /\ legal' = (legal /\ grants[h.o][t]["w"] > 0)
      /\ datum' = [datum EXCEPT ![h.o] =
                     Result(h.change, h.o, owner[t].loaded)]
      /\ whole' = IF h.first
                    THEN [o \in Objects |-> Result(h.change, o, whole)]
                    ELSE whole
      /\ owner' = [owner EXCEPT ![t] = Forward(@)]
      /\ UNCHANGED grants

GoOn(t) ==
  /\ owner[t].todo # <<>> /\ UNCHANGED syncCalls
  /\ \/ MutexStep(t) \/ TimesOut(t)
     \/ LoadStep(t) \/ StoreStep(t)

Contextual == {"Exclusive", "Shared"}

Calls(t) ==
  \/ \E a, b \in Objects :
       \/ CopyAssign(t, a, b) \/ MoveAssign(t, a, b) \/ Swap(t, a, b)
       \/ \E pa, pb \in Contextual : AcquireLocked(t, a, pa, b, pb)
  \/ \E a \in Objects :
       Copy(t, a) \/ \E left \in {Left, Another} : Replace(t, a, left)
  \/ \E p \in 1 .. 2 :
       \/ \E o \in Objects, policy \in Basic :
            Lock(t, p, o, policy) \/ LockFor(t, p, o, policy)
       \/ Unlock(t, p) \/ ScopedUnlock(t, p) \/ Increment(t, p)
       \/ \E q \in 1 .. 2 :
            \/ MovePtr(t, p, q)
            \/ \E c \in Conversion : Convert(t, p, q, c)
  \/ Reacquire(t)

SyncNext == \E t \in Owners : GoOn(t) \/ Calls(t)

SyncSpec == SyncInit /\ [][SyncNext]_syncVars

-----------------------------------------------------------------------------

(* Between calls a thread holds exactly the locks that its LockedPtrs say, *)
(* in their modes, through moves, conversions, timeouts and scoped         *)
(* unlocks; every mutex operation, load and store had the lock it needs.   *)
LocksAreClaimed ==
  /\ legal
  /\ \A t \in Owners, o \in Objects, m \in Modes :
       owner[t].todo = <<>> =>
         grants[o][t][m] = (IF \E p \in 1 .. 2 : /\ Parent(t, p) = o
                                                 /\ ModeOf(PolicyOf(t, p)) = m
                              THEN 1 ELSE 0)

(* Assignments, moves, swaps and increments are atomic: whoever has a      *)
(* datum locked, and is not changing it, sees what the calls before it     *)
(* left, and no update is lost.                                            *)
CallsAreAtomic ==
  \A o \in Objects :
    (\A t \in Owners : grants[o][t]["w"] > 0 => owner[t].todo = <<>>) =>
      datum[o] = whole[o]

(* Threads that lock two objects at once never wait for each other in a    *)
(* circle.                                                                 *)
NeverAllWait ==
  (/\ \A t \in Owners : owner[t].todo = <<>> => HoldsNone(t)
   /\ \E t \in Owners : owner[t].todo # <<>>) => \E t \in Owners : CanGo(t)

SynchronizedSound == LocksAreClaimed /\ CallsAreAtomic /\ NeverAllWait
=============================================================================
