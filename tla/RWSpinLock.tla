----------------------------- MODULE RWSpinLock -----------------------------
(***************************************************************************)
(* accelerator/thread/RWSpinLock.h: a four byte reader/writer spin lock    *)
(* with an upgrade mode.  Every atomic read-modify-write of bits_ is one   *)
(* step; an operation that takes two of them (a reader that backs out, a   *)
(* downgrade) is two actions, so other threads run in between.             *)
(***************************************************************************)
EXTENDS Integers, FiniteSets

CONSTANT Threads

ASSUME ThreadsFinite == IsFiniteSet(Threads)

READER   == 4
UPGRADED == 2
WRITER   == 1

VARIABLES
  bits,     \* std::atomic<int32_t> bits_
  pc        \* what each thread is doing with the lock, or holds of it

vars == <<bits, pc>>

(* A thread waiting in a blocking call.                                    *)
Spinning == {"lock", "lockShared", "lockUpgrade"}

(* A thread whose fetch_add(READER) met a writer or an upgrader: it still  *)
(* has to take its READER back, and then returns false ("backOff") or      *)
(* tries again ("backOffSpin").                                            *)
BackingOff == {"backOff", "backOffSpin"}

(* A thread that owns the lock, between calls or inside one.  "promoting"  *)
(* owns it for upgrade, "toShared" and "toUpgrade" own it exclusively.     *)
Owning ==
  {"shared", "upgrade", "exclusive", "promoting", "toShared", "toUpgrade"}

States == {"idle"} \cup Spinning \cup BackingOff \cup Owning

HasWriter(b)   == b % 2 = 1
HasUpgraded(b) == (b \div 2) % 2 = 1

(* fetch_or(UPGRADED) and fetch_and(~(WRITER | UPGRADED)).                 *)
AndNotWriter(b) == IF HasWriter(b) THEN b - WRITER ELSE b   \* mutant
OrUpgraded(b)  == IF HasUpgraded(b) THEN b ELSE b + UPGRADED
AndNotSolo(b)  == b - (b % READER)

Goto(t, to) == pc' = [pc EXCEPT ![t] = to]

-----------------------------------------------------------------------------

(* lock(), lock_shared() and lock_upgrade() loop on their try_ variant.    *)
Call(t) ==
  /\ pc[t] = "idle"
  /\ \E op \in Spinning : Goto(t, op)
  /\ UNCHANGED bits

(* try_lock: the failing compare_exchange changes nothing.                 *)
TryLock(t) ==
  /\ pc[t] \in {"idle", "lock"}
  /\ bits = 0
  /\ bits' = WRITER
  /\ Goto(t, "exclusive")

TryLockSharedIgnoresUpgraded(t) ==   \* mutant
  /\ pc[t] \in {"idle", "lockShared"}
  /\ bits' = bits + READER
  /\ Goto(t, IF ~HasWriter(bits) THEN "shared"
             ELSE IF pc[t] = "idle" THEN "backOff" ELSE "backOffSpin")

TryLockShared(t) ==
  /\ pc[t] \in {"idle", "lockShared"}
  /\ bits' = bits + READER
  /\ Goto(t, IF ~HasWriter(bits) /\ ~HasUpgraded(bits) THEN "shared"
             ELSE IF pc[t] = "idle" THEN "backOff" ELSE "backOffSpin")

BackOff(t) ==
  /\ pc[t] \in BackingOff
  /\ bits' = bits - READER
  /\ Goto(t, IF pc[t] = "backOff" THEN "idle" ELSE "lockShared")

TryLockUpgradeIgnoresWriter(t) ==   \* mutant
  /\ pc[t] \in {"idle", "lockUpgrade"}
  /\ bits' = OrUpgraded(bits)
  /\ IF ~HasUpgraded(bits) THEN Goto(t, "upgrade") ELSE UNCHANGED pc

(* The UPGRADED bit a failing try_lock_upgrade sets stays set.             *)
TryLockUpgrade(t) ==
  /\ pc[t] \in {"idle", "lockUpgrade"}
  /\ bits' = OrUpgraded(bits)
  /\ IF ~HasWriter(bits) /\ ~HasUpgraded(bits)
     THEN Goto(t, "upgrade")
     ELSE UNCHANGED pc

Unlock(t) ==
  /\ pc[t] = "exclusive"
  /\ bits' = AndNotSolo(bits)
  /\ Goto(t, "idle")

UnlockShared(t) ==
  /\ pc[t] = "shared"
  /\ bits' = bits - READER
  /\ Goto(t, "idle")

UnlockUpgrade(t) ==
  /\ pc[t] = "upgrade"
  /\ bits' = bits - UPGRADED
  /\ Goto(t, "idle")

(* unlock_upgrade_and_lock() loops on try_unlock_upgrade_and_lock().       *)
CallPromote(t) ==
  /\ pc[t] = "upgrade"
  /\ Goto(t, "promoting")
  /\ UNCHANGED bits

TryUnlockUpgradeAndLock(t) ==
  /\ pc[t] \in {"upgrade", "promoting"}
  /\ bits = UPGRADED
  /\ bits' = WRITER
  /\ Goto(t, "exclusive")

UnlockUpgradeAndLockShared(t) ==
  /\ pc[t] = "upgrade"
  /\ bits' = bits + READER - UPGRADED
  /\ Goto(t, "shared")

(* unlock_and_lock_shared(): register as a reader, then unlock().          *)
UnlockAndLockShared(t) ==
  /\ pc[t] = "exclusive"
  /\ bits' = bits + READER
  /\ Goto(t, "toShared")

FinishUnlockAndLockShared(t) ==
  /\ pc[t] = "toShared"
  /\ bits' = AndNotSolo(bits)
  /\ Goto(t, "shared")

(* unlock_and_lock_upgrade(): set UPGRADED, then take WRITER away.         *)
UnlockAndLockUpgrade(t) ==
  /\ pc[t] = "exclusive"
  /\ bits' = OrUpgraded(bits)
  /\ Goto(t, "toUpgrade")

FinishUnlockAndLockUpgrade(t) ==
  /\ pc[t] = "toUpgrade"
  /\ bits' = bits - WRITER
  /\ Goto(t, "upgrade")

Init ==
  /\ bits = 0
  /\ pc = [t \in Threads |-> "idle"]

Release(t) ==
  \/ Unlock(t) \/ UnlockShared(t) \/ UnlockUpgrade(t)

Downgrade(t) ==
  \/ UnlockUpgradeAndLockShared(t)
  \/ UnlockAndLockShared(t) \/ FinishUnlockAndLockShared(t)
  \/ UnlockAndLockUpgrade(t) \/ FinishUnlockAndLockUpgrade(t)

Next == \E t \in Threads :
  \/ Call(t)
  \/ TryLock(t) \/ TryLockShared(t) \/ BackOff(t) \/ TryLockUpgrade(t)
  \/ Release(t)
  \/ CallPromote(t) \/ TryUnlockUpgradeAndLock(t)
  \/ Downgrade(t)

Spec == Init /\ [][Next]_vars

(* A thread inside a call keeps taking steps, and whoever owns the lock    *)
(* lets it go in the end.                                                  *)
Fairness == \A t \in Threads :
  /\ WF_vars(BackOff(t))
  /\ WF_vars(Release(t))
  /\ WF_vars(FinishUnlockAndLockShared(t))
  /\ WF_vars(FinishUnlockAndLockUpgrade(t))
  /\ WF_vars(pc[t] = "promoting" /\ TryUnlockUpgradeAndLock(t))

FairSpec == Spec /\ Fairness

-----------------------------------------------------------------------------

TypeOK ==
  /\ bits \in Nat
  /\ pc \in [Threads -> States]

Shared    == {t \in Threads : pc[t] = "shared"}
Upgrade   == {t \in Threads : pc[t] \in {"upgrade", "promoting"}}
Exclusive == {t \in Threads : pc[t] \in {"exclusive", "toShared", "toUpgrade"}}

(* The threads whose READER is counted in bits_.                           *)
Registering == {"shared", "toShared"} \cup BackingOff
Registered  == {t \in Threads : pc[t] \in Registering}

(* SharedMutex.h's comparison of the two locks says of both: at most one   *)
(* thread owns the lock exclusively or for upgrade, and never a reader     *)
(* beside an exclusive owner.                                              *)
Exclusion ==
  /\ \A s, t \in Upgrade \cup Exclusive : s = t
  /\ Exclusive # {} => Shared = {}

(* bits_ says who is in: as many READERs as there are registered readers,  *)
(* WRITER for an exclusive owner, UPGRADED for an upgrader.                *)
BitsCount ==
  /\ bits \div READER = Cardinality(Registered)
  /\ HasWriter(bits) <=> Exclusive # {}
  /\ Upgrade # {} => HasUpgraded(bits)
  /\ (\E t \in Threads : pc[t] = "toUpgrade") => HasUpgraded(bits)

(* The UPGRADED bit a failing try_lock_upgrade leaves behind is never      *)
(* orphaned: while it is set there is an owner whose release clears it     *)
(* (the comment in try_lock_upgrade), so it cannot shut readers out of a   *)
(* lock that nobody owns.                                                  *)
NoOrphanUpgraded == HasUpgraded(bits) => Upgrade \cup Exclusive # {}

(* The same comparison: no thread gets the lock shared while another keeps *)
(* it for upgrade.                                                         *)
NoNewReaderBesideUpgrade ==
  [][Upgrade # {} /\ Upgrade' # {} => Shared' \subseteq Shared]_vars

(* try_lock_shared's comment: the UPGRADED bit blocks new readers, so a    *)
(* promotion waits for the readers already in and is not starved by those  *)
(* that come later; only a reader caught between its two fetch_adds can    *)
(* make the compare_exchange fail again and again.                         *)
PromotionNotStarvedByReaders == \A t \in Threads :
  []<>(pc[t] # "promoting") \/ []<>(\E u \in Threads : pc[u] \in BackingOff)

=============================================================================
