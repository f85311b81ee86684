---------------------------- MODULE ThreadProofs ----------------------------
(***************************************************************************)
(* Three small parts of thread/: RWSpinLock, whose bits are added and      *)
(* removed without looking at them first, and two parts of the bounded     *)
(* queues whose correctness rests on a number that wraps: the turn of a    *)
(* slot of MPMCQueue, and the indices of ProducerConsumerQueue.            *)
(***************************************************************************)
EXTENDS RWSpinLock, TurnSequencer, PCQueue, ModLemmas, SequenceTheorems,
        FiniteSetTheorems

-----------------------------------------------------------------------------
(***************************************************************************)
(* The safety of RWSpinLock for every finite set of threads.               *)
(***************************************************************************)

(* What every reachable state satisfies: the three invariants of the lock  *)
(* hold together, none of them is inductive alone.                         *)
RWInv == TypeOK /\ Exclusion /\ BitsCount /\ NoOrphanUpgraded

(* bits_ taken apart into its three fields, and each operation on it as    *)
(* the operation on the fields.                                            *)
Fields(b, r, u, w) ==
  /\ b \in Nat /\ r \in Nat /\ u \in {0, 1} /\ w \in {0, 1}
  /\ b = 4 * r + 2 * u + w

(* Every value of bits_ has its three fields.                              *)
LEMMA FieldsExist ==
  ASSUME NEW b \in Nat
  PROVE  \E r \in Nat, u, w \in {0, 1} : Fields(b, r, u, w)
<1> DEFINE r == b \div 4
           u == (b \div 2) % 2
           w == b % 2
<1>1. r \in Nat /\ u \in {0, 1} /\ w \in {0, 1} /\ b = 4 * r + 2 * u + w
  OBVIOUS
<1> QED  BY <1>1 DEF Fields

(* The tests of the two low bits and the reader count, read off the fields.*)
LEMMA FieldsRead ==
  ASSUME NEW b, NEW r, NEW u, NEW w, Fields(b, r, u, w)
  PROVE  /\ b \div READER = r
         /\ HasUpgraded(b) <=> u = 1
         /\ HasWriter(b) <=> w = 1
BY DEF Fields, READER, HasUpgraded, HasWriter

(* Each update of bits_, as an update of its fields.                       *)
LEMMA FieldsWrite ==
  ASSUME NEW b, NEW r, NEW u, NEW w, Fields(b, r, u, w)
  PROVE  /\ Fields(b + READER, r + 1, u, w)
         /\ r > 0 => Fields(b - READER, r - 1, u, w)
         /\ Fields(AndNotSolo(b), r, 0, 0)
         /\ Fields(OrUpgraded(b), r, 1, w)
         /\ u = 1 => Fields(b - UPGRADED, r, 0, w)
         /\ u = 1 => Fields(b + READER - UPGRADED, r + 1, 0, w)
         /\ w = 1 => Fields(b - WRITER, r, u, 0)
<1>1. b % 4 = 2 * u + w
  BY DEF Fields
<1>2. HasUpgraded(b) <=> u = 1
  BY FieldsRead
<1>3. Fields(AndNotSolo(b), r, 0, 0)
  BY <1>1 DEF Fields, AndNotSolo, READER
<1>4. Fields(OrUpgraded(b), r, 1, w)
  BY <1>2 DEF Fields, OrUpgraded, UPGRADED
<1> QED
  BY <1>3, <1>4 DEF Fields, READER, UPGRADED, WRITER

(* The values the two compare_exchanges expect, and the one they store.    *)
LEMMA FieldsExpected ==
  ASSUME NEW b, NEW r, NEW u, NEW w, Fields(b, r, u, w)
  PROVE  /\ b = 0 => r = 0 /\ u = 0 /\ w = 0
         /\ b = UPGRADED => r = 0 /\ u = 1 /\ w = 0
         /\ Fields(WRITER, 0, 0, 1)
BY DEF Fields, UPGRADED, WRITER

(* What a step of one thread does to the number of registered readers.     *)
LEMMA CountSame ==
  ASSUME NEW t \in Threads, NEW x \in States, pc \in [Threads -> States],
         pc' = [pc EXCEPT ![t] = x], pc[t] \in Registering <=> x \in Registering
  PROVE  Registered' = Registered
BY DEF Registered

LEMMA CountUp ==
  ASSUME NEW t \in Threads, NEW x \in States, pc \in [Threads -> States],
         pc' = [pc EXCEPT ![t] = x], pc[t] \notin Registering, x \in Registering
  PROVE  Cardinality(Registered') = Cardinality(Registered) + 1
<1>1. Registered' = Registered \cup {t} /\ t \notin Registered
  BY DEF Registered
<1>2. IsFiniteSet(Registered)
  BY ThreadsFinite, FS_Subset DEF Registered
<1> QED  BY Zenon, <1>1, <1>2, FS_AddElement

LEMMA CountDown ==
  ASSUME NEW t \in Threads, NEW x \in States, pc \in [Threads -> States],
         pc' = [pc EXCEPT ![t] = x], pc[t] \in Registering, x \notin Registering
  PROVE  Cardinality(Registered') = Cardinality(Registered) - 1
<1>1. Registered' = Registered \ {t} /\ t \in Registered
  BY DEF Registered
<1>2. IsFiniteSet(Registered)
  BY ThreadsFinite, FS_Subset DEF Registered
<1> QED  BY Zenon, <1>1, <1>2, FS_RemoveElement

(* No reader is registered exactly when the count is zero.                 *)
LEMMA CountZero ==
  /\ Cardinality(Registered) \in Nat
  /\ Cardinality(Registered) = 0 <=> Registered = {}
<1>1. IsFiniteSet(Registered)
  BY ThreadsFinite, FS_Subset DEF Registered
<1> QED  BY <1>1, FS_CardinalityType, FS_EmptySet

(* The invariant with bits_ in fields: w and u are the two low bits.       *)
Owners(u, w) ==
  /\ Fields(bits, Cardinality(Registered), u, w)
  /\ pc \in [Threads -> States]
  /\ Exclusion
  /\ w = 1 <=> Exclusive # {}
  /\ Upgrade # {} => u = 1
  /\ (\E t \in Threads : pc[t] = "toUpgrade") => u = 1
  /\ u = 1 => Upgrade \cup Exclusive # {}

LEMMA InvInFields == RWInv <=> \E u, w \in {0, 1} : Owners(u, w)
<1>1. ASSUME RWInv PROVE \E u, w \in {0, 1} : Owners(u, w)
  <2>1. PICK r \in Nat, u, w \in {0, 1} : Fields(bits, r, u, w)
    BY <1>1, FieldsExist DEF RWInv, TypeOK
  <2>2. /\ bits \div READER = r
        /\ HasUpgraded(bits) <=> u = 1
        /\ HasWriter(bits) <=> w = 1
    BY <2>1, FieldsRead
  <2>3. Owners(u, w)
    BY <1>1, <2>1, <2>2 DEF RWInv, TypeOK, BitsCount, NoOrphanUpgraded, Owners
  <2> QED  BY <2>3
<1>2. ASSUME NEW u \in {0, 1}, NEW w \in {0, 1}, Owners(u, w) PROVE RWInv
  <2>1. /\ bits \div READER = Cardinality(Registered)
        /\ HasUpgraded(bits) <=> u = 1
        /\ HasWriter(bits) <=> w = 1
    BY <1>2, FieldsRead DEF Owners
  <2>2. bits \in Nat
    BY <1>2 DEF Owners, Fields
  <2> QED
    BY <1>2, <2>1, <2>2 DEF RWInv, TypeOK, BitsCount, NoOrphanUpgraded, Owners
<1> QED  BY <1>1, <1>2

(* Every step of one thread keeps the invariant.                           *)
LEMMA StepKeepsOwners ==
  ASSUME NEW t \in Threads, NEW u \in {0, 1}, NEW w \in {0, 1}, Owners(u, w),
         \/ Call(t)
         \/ TryLock(t) \/ TryLockShared(t) \/ BackOff(t) \/ TryLockUpgrade(t)
         \/ Release(t)
         \/ CallPromote(t) \/ TryUnlockUpgradeAndLock(t)
         \/ Downgrade(t)
  PROVE  \E v, x \in {0, 1} : Owners(v, x)'
<1> DEFINE r == Cardinality(Registered)
<1> USE DEF Goto, Registering, BackingOff, States, Spinning, Owning
<1>a. /\ r \in Nat
      /\ r = 0 <=> Registered = {}
  BY CountZero
<1>b. /\ HasUpgraded(bits) <=> u = 1
      /\ HasWriter(bits) <=> w = 1
  BY FieldsRead DEF Owners
<1>c. pc \in [Threads -> States] /\ Fields(bits, r, u, w)
  BY DEF Owners
<1>d. /\ pc[t] \in Registering => r > 0
      /\ pc[t] \in {"upgrade", "promoting"} => u = 1
      /\ pc[t] \in {"exclusive", "toShared", "toUpgrade"} => w = 1
  <2>1. pc[t] \in Registering => r > 0
    BY <1>a DEF Registered
  <2> QED  BY <2>1 DEF Owners, Upgrade, Exclusive
<1> HIDE DEF r
<1>1. CASE Call(t)
  <2>1. Cardinality(Registered)' = r
    BY Zenon, <1>1, <1>c, CountSame DEF Call, r
  <2>2. Fields(bits', Cardinality(Registered)', u, w)
    BY Zenon, <1>1, <1>c, <1>d, <2>1 DEF Call
  <2>3. Owners(u, w)'
    BY <1>1, <1>b, <1>c, <1>d, <2>2
    DEF Call, Owners, Exclusion, Exclusive, Upgrade, Shared
  <2> QED  BY Zenon, <2>3
<1>2. CASE TryLock(t)
  <2>1. Cardinality(Registered)' = r
    BY Zenon, <1>2, <1>c, CountSame DEF TryLock, r
  <2>2. /\ r = 0 /\ u = 0 /\ w = 0 /\ Registered = {}
        /\ Fields(bits', Cardinality(Registered)', 0, 1)
    BY <1>2, <1>a, <1>c, <2>1, FieldsExpected DEF TryLock
  <2>3. Owners(0, 1)'
    BY <1>2, <1>c, <2>2
    DEF TryLock, Owners, Exclusion, Exclusive, Upgrade, Shared, Registered
  <2> QED  BY Zenon, <2>3
<1>3. CASE TryLockShared(t)
  <2>1. Cardinality(Registered)' = r + 1
    BY Zenon, <1>3, <1>c, CountUp DEF TryLockShared, r
  <2>2. Fields(bits', Cardinality(Registered)', u, w)
    BY <1>3, <1>c, <1>d, <2>1, FieldsWrite DEF TryLockShared
  <2>3. Owners(u, w)'
    BY <1>3, <1>b, <1>c, <1>d, <2>2
    DEF TryLockShared, Owners, Exclusion, Exclusive, Upgrade, Shared
  <2> QED  BY <2>3
<1>4. CASE BackOff(t)
  <2>1. Cardinality(Registered)' = r - 1
    BY Zenon, <1>4, <1>c, CountDown DEF BackOff, r
  <2>2. Fields(bits', Cardinality(Registered)', u, w)
    BY <1>4, <1>c, <1>d, <2>1, FieldsWrite DEF BackOff
  <2>3. Owners(u, w)'
    BY <1>4, <1>b, <1>c, <1>d, <2>2
    DEF BackOff, Owners, Exclusion, Exclusive, Upgrade, Shared
  <2> QED  BY <2>3
<1>5. CASE TryLockUpgrade(t)
  <2>1. Cardinality(Registered)' = r
    BY <1>5, <1>c, CountSame DEF TryLockUpgrade, r, Registered
  <2>2. Fields(bits', Cardinality(Registered)', 1, w)
    BY <1>5, <1>c, <1>d, <2>1, FieldsWrite DEF TryLockUpgrade
  <2>3. Owners(1, w)'
    BY <1>5, <1>b, <1>c, <1>d, <2>2
    DEF TryLockUpgrade, Owners, Exclusion, Exclusive, Upgrade, Shared
  <2> QED  BY <2>3
<1>6. CASE Unlock(t)
  <2>1. Cardinality(Registered)' = r
    BY Zenon, <1>6, <1>c, CountSame DEF Unlock, r
  <2>2. Fields(bits', Cardinality(Registered)', 0, 0)
    BY Zenon, <1>6, <1>c, <1>d, <2>1, FieldsWrite DEF Unlock
  <2>3. Owners(0, 0)'
    BY <1>6, <1>b, <1>c, <1>d, <2>2
    DEF Unlock, Owners, Exclusion, Exclusive, Upgrade, Shared
  <2> QED  BY Zenon, <2>3
<1>7. CASE UnlockShared(t)
  <2>1. Cardinality(Registered)' = r - 1
    BY Zenon, <1>7, <1>c, CountDown DEF UnlockShared, r
  <2>2. Fields(bits', Cardinality(Registered)', u, w)
    BY <1>7, <1>c, <1>d, <2>1, FieldsWrite DEF UnlockShared
  <2>3. Owners(u, w)'
    BY <1>7, <1>b, <1>c, <1>d, <2>2
    DEF UnlockShared, Owners, Exclusion, Exclusive, Upgrade, Shared
  <2> QED  BY Zenon, <2>3
<1>8. CASE UnlockUpgrade(t)
  <2>1. Cardinality(Registered)' = r
    BY Zenon, <1>8, <1>c, CountSame DEF UnlockUpgrade, r
  <2>2. Fields(bits', Cardinality(Registered)', 0, w)
    BY Zenon, <1>8, <1>c, <1>d, <2>1, FieldsWrite DEF UnlockUpgrade
  <2>3. Owners(0, w)'
    BY <1>8, <1>b, <1>c, <1>d, <2>2
    DEF UnlockUpgrade, Owners, Exclusion, Exclusive, Upgrade, Shared
  <2> QED  BY <2>3
<1>9. CASE CallPromote(t)
  <2>1. Cardinality(Registered)' = r
    BY Zenon, <1>9, <1>c, CountSame DEF CallPromote, r
  <2>2. Fields(bits', Cardinality(Registered)', u, w)
    BY Zenon, <1>9, <1>c, <1>d, <2>1 DEF CallPromote
  <2>3. Owners(u, w)'
    BY <1>9, <1>b, <1>c, <1>d, <2>2
    DEF CallPromote, Owners, Exclusion, Exclusive, Upgrade, Shared
  <2> QED  BY Zenon, <2>3
<1>10. CASE TryUnlockUpgradeAndLock(t)
  <2>1. Cardinality(Registered)' = r
    BY Zenon, <1>10, <1>c, CountSame DEF TryUnlockUpgradeAndLock, r
  <2>2. /\ r = 0 /\ w = 0 /\ Registered = {}
        /\ Fields(bits', Cardinality(Registered)', 0, 1)
    BY <1>10, <1>a, <1>c, <2>1, FieldsExpected DEF TryUnlockUpgradeAndLock
  <2>3. Owners(0, 1)'
    BY <1>10, <1>c, <2>2
    DEF TryUnlockUpgradeAndLock, Owners, Exclusion, Exclusive, Upgrade, Shared, Registered
  <2> QED  BY Zenon, <2>3
<1>11. CASE UnlockUpgradeAndLockShared(t)
  <2>1. Cardinality(Registered)' = r + 1
    BY Zenon, <1>11, <1>c, CountUp DEF UnlockUpgradeAndLockShared, r
  <2>2. Fields(bits', Cardinality(Registered)', 0, w)
    BY <1>11, <1>c, <1>d, <2>1, FieldsWrite DEF UnlockUpgradeAndLockShared
  <2>3. Owners(0, w)'
    BY <1>11, <1>b, <1>c, <1>d, <2>2
    DEF UnlockUpgradeAndLockShared, Owners, Exclusion, Exclusive, Upgrade, Shared
  <2> QED  BY Zenon, <2>3
<1>12. CASE UnlockAndLockShared(t)
  <2>1. Cardinality(Registered)' = r + 1
    BY Zenon, <1>12, <1>c, CountUp DEF UnlockAndLockShared, r
  <2>2. Fields(bits', Cardinality(Registered)', u, w)
    BY <1>12, <1>c, <1>d, <2>1, FieldsWrite DEF UnlockAndLockShared
  <2>3. Owners(u, w)'
    BY <1>12, <1>b, <1>c, <1>d, <2>2
    DEF UnlockAndLockShared, Owners, Exclusion, Exclusive, Upgrade, Shared
  <2> QED  BY <2>3
<1>13. CASE FinishUnlockAndLockShared(t)
  <2>1. Cardinality(Registered)' = r
    BY Zenon, <1>13, <1>c, CountSame DEF FinishUnlockAndLockShared, r
  <2>2. Fields(bits', Cardinality(Registered)', 0, 0)
    BY Zenon, <1>13, <1>c, <1>d, <2>1, FieldsWrite DEF FinishUnlockAndLockShared
  <2>3. Owners(0, 0)'
    BY <1>13, <1>b, <1>c, <1>d, <2>2
    DEF FinishUnlockAndLockShared, Owners, Exclusion, Exclusive, Upgrade, Shared
  <2> QED  BY <2>3
<1>14. CASE UnlockAndLockUpgrade(t)
  <2>1. Cardinality(Registered)' = r
    BY Zenon, <1>14, <1>c, CountSame DEF UnlockAndLockUpgrade, r
  <2>2. Fields(bits', Cardinality(Registered)', 1, w)
    BY Zenon, <1>14, <1>c, <1>d, <2>1, FieldsWrite DEF UnlockAndLockUpgrade
  <2>3. Owners(1, w)'
    BY Zenon, <1>14, <1>b, <1>c, <1>d, <2>2
    DEF UnlockAndLockUpgrade, Owners, Exclusion, Exclusive, Upgrade, Shared
  <2> QED  BY Zenon, <2>3
<1>15. CASE FinishUnlockAndLockUpgrade(t)
  <2>1. Cardinality(Registered)' = r
    BY Zenon, <1>15, <1>c, CountSame DEF FinishUnlockAndLockUpgrade, r
  <2>2. Fields(bits', Cardinality(Registered)', u, 0)
    BY Zenon, <1>15, <1>c, <1>d, <2>1, FieldsWrite
      DEF FinishUnlockAndLockUpgrade
  <2>3. Owners(u, 0)'
    BY <1>15, <1>b, <1>c, <1>d, <2>2
    DEF FinishUnlockAndLockUpgrade, Owners, Exclusion, Exclusive, Upgrade, Shared
  <2> QED  BY Zenon, <2>3
<1> QED
  BY <1>1, <1>2, <1>3, <1>4, <1>5, <1>6, <1>7, <1>8, <1>9, <1>10, <1>11,
     <1>12, <1>13, <1>14, <1>15
  DEF Release, Downgrade

(* The lock's three invariants hold of every reachable state, whatever the *)
(* number of threads.                                                      *)
THEOREM RWInvariance == Spec => []RWInv
<1>1. Init => RWInv
  <2> SUFFICES ASSUME Init PROVE RWInv
    OBVIOUS
  <2>1. Registered = {}
    BY DEF Init, Registered, Registering, BackingOff
  <2>2. Fields(bits, Cardinality(Registered), 0, 0)
    BY <2>1, FS_EmptySet DEF Init, Fields
  <2>3. Owners(0, 0)
    BY <2>2 DEF Init, Owners, Exclusion, Exclusive, Upgrade, Shared, States
  <2> QED  BY <2>3, InvInFields
<1>2. RWInv /\ [Next]_vars => RWInv'
  <2> SUFFICES ASSUME RWInv, [Next]_vars PROVE RWInv'
    OBVIOUS
  <2>1. RWInv' <=> (\E u, w \in {0, 1} : Owners(u, w))'
    BY InvInFields, PTL
  <2>2. PICK u, w \in {0, 1} : Owners(u, w)
    BY InvInFields
  <2>3. CASE Next
    <3>1. PICK t \in Threads :
            \/ Call(t)
            \/ TryLock(t) \/ TryLockShared(t) \/ BackOff(t) \/ TryLockUpgrade(t)
            \/ Release(t)
            \/ CallPromote(t) \/ TryUnlockUpgradeAndLock(t)
            \/ Downgrade(t)
      BY <2>3 DEF Next
    <3>2. \E v, x \in {0, 1} : Owners(v, x)'
      BY Zenon, <2>2, <3>1, StepKeepsOwners
    <3> QED  BY Zenon, <2>1, <3>2
  <2>4. CASE UNCHANGED vars
    BY <2>4 DEF vars, RWInv, TypeOK, Exclusion, BitsCount, NoOrphanUpgraded,
                Registered, Shared, Upgrade, Exclusive
  <2> QED  BY <2>3, <2>4
<1> QED  BY <1>1, <1>2, PTL DEF Spec

(* No two threads own the lock exclusively or for upgrade, and no reader   *)
(* is in beside an exclusive owner.                                        *)
THEOREM ExclusionHolds == Spec => []Exclusion
BY RWInvariance, PTL DEF RWInv

(* The UPGRADED bit of a failed try_lock_upgrade always has an owner that  *)
(* will clear it.                                                          *)
THEOREM NoOrphanUpgradedHolds == Spec => []NoOrphanUpgraded
BY RWInvariance, PTL DEF RWInv

(* A thread never joins the readers while another keeps the lock for       *)
(* upgrade: the fetch_add of try_lock_shared sees the UPGRADED bit.        *)
THEOREM NoNewReaderBesideUpgradeHolds == Spec => NoNewReaderBesideUpgrade
<1> DEFINE NoJoin == Upgrade # {} /\ Upgrade' # {} => Shared' \subseteq Shared
<1>1. RWInv /\ [Next]_vars => NoJoin \/ UNCHANGED vars
  <2> SUFFICES ASSUME RWInv, Next, Upgrade # {}, Upgrade' # {},
                      NEW s \in Shared', s \notin Shared
               PROVE  FALSE
    BY DEF vars
  <2>1. HasUpgraded(bits) /\ pc \in [Threads -> States]
    BY Zenon DEF RWInv, BitsCount, TypeOK
  <2>2. \/ TryLockShared(s) \/ FinishUnlockAndLockShared(s)
        \/ UnlockUpgradeAndLockShared(s)
    BY <2>1 DEF Shared, Next, Goto, Spinning, Call, TryLock, TryLockShared,
         BackOff, TryLockUpgrade, Release, Unlock, UnlockShared, UnlockUpgrade,
         CallPromote, TryUnlockUpgradeAndLock, Downgrade,
         UnlockUpgradeAndLockShared, UnlockAndLockShared,
         FinishUnlockAndLockShared, UnlockAndLockUpgrade,
         FinishUnlockAndLockUpgrade
  <2>3. CASE TryLockShared(s)
    BY Zenon, <2>1, <2>3 DEF TryLockShared, Goto, Shared
  <2>4. CASE FinishUnlockAndLockShared(s)
    BY <2>4 DEF FinishUnlockAndLockShared, RWInv, Exclusion, Upgrade, Exclusive,
         Shared
  <2>5. CASE UnlockUpgradeAndLockShared(s)
    <3>1. PICK q \in Threads : q \in Upgrade'
      BY DEF Upgrade
    <3>2. s \in Upgrade /\ s \in Threads /\ q # s /\ q \in Upgrade
      BY Zenon, <2>1, <2>5, <3>1
        DEF UnlockUpgradeAndLockShared, Goto, Upgrade, Shared
    <3> QED  BY <3>2 DEF RWInv, Exclusion
  <2> QED  BY Zenon, <2>2, <2>3, <2>4, <2>5
<1> QED  BY <1>1, RWInvariance, PTL DEF Spec, NoNewReaderBesideUpgrade

-----------------------------------------------------------------------------
(***************************************************************************)
(* TurnSequencer runs the turns one at a time and loses no wakeup, for     *)
(* every width of the turn and of the delta and every number of channels   *)
(* with DeltaCoversChannels.                                               *)
(***************************************************************************)

(* What a thread's copy of state_ still means when it uses it: it is not   *)
(* the thread's turn in it, and once the thread goes to sleep on it it     *)
(* counts the thread as a waiter.                                          *)
Recorded == \A t \in Turns :
  /\ at[t] \in {"register", "futexWait"} => seen[t].turn # t % TurnMod
  /\ at[t] = "futexWait" =>
       seen[t].delta >= WaiterDelta(t) \/ seen[t].delta = MaxDelta

(* Turns that state_ has to tell apart are less than TurnMod apart.        *)
Window == \A t \in Turns : at[t] # "away" => t - completed < TurnMod

Inv == TurnTypeOK /\ InTurn /\ Recorded /\ Window /\ SleeperIsCovered

LEMMA encodeType ==
  ASSUME NEW t \in Int, NEW d \in Nat
  PROVE  /\ encode(t, d) \in Words
         /\ encode(t, d).turn = t % TurnMod
         /\ encode(t, d).delta = IF d > MaxDelta THEN MaxDelta ELSE d
BY BoundsAssumption DEF encode, Words

(* The turn of a thread that waits, seen from an up-to-date state_.        *)
LEMMA CurrentTurn ==
  ASSUME Inv, NEW t \in Turns, at[t] \notin {"away", "wake", "done"}
  PROVE  /\ t - completed \in 0..(TurnMod - 1)
         /\ state.turn = t % TurnMod => t = completed
         /\ (t - state.turn) % TurnMod = t - completed
<1>1. /\ completed \in Int /\ t \in Int /\ t - completed \in 0..(TurnMod - 1)
      /\ state.turn = completed % TurnMod
  BY BoundsAssumption DEF Inv, TurnTypeOK, InTurn, Window, Turns
<1>2. ASSUME state.turn = t % TurnMod PROVE t = completed
  <2>1. 0 <= t - completed /\ t - completed < TurnMod
    BY <1>1, BoundsAssumption
  <2>2. t % TurnMod = completed % TurnMod
    BY <1>1, <1>2
  <2> QED  BY Zenon, <1>1, <2>1, <2>2, BoundsAssumption, ModApart
<1>3. (t - (completed % TurnMod)) % TurnMod = (t - completed) % TurnMod
  BY <1>1, BoundsAssumption, ModDiff
<1>4. (t - completed) % TurnMod = t - completed
  BY <1>1, BoundsAssumption
<1> QED  BY Zenon, <1>1, <1>2, <1>3, <1>4

LEMMA InitInv == TurnInit => Inv
<1> SUFFICES ASSUME TurnInit PROVE Inv
  OBVIOUS
<1>1. /\ encode(FirstTurn, 0) \in Words
      /\ encode(FirstTurn, 0).turn = FirstTurn % TurnMod
  <2>1. FirstTurn \in Int /\ 0 \in Nat
    BY BoundsAssumption
  <2> QED  BY Zenon, <2>1, encodeType
<1>2. TurnTypeOK
  BY <1>1, BoundsAssumption DEF TurnInit, TurnTypeOK, Places
<1>3. InTurn /\ Recorded /\ Window /\ SleeperIsCovered
  BY <1>1, BoundsAssumption
  DEF TurnInit, InTurn, Recorded, Window, SleeperIsCovered, Turns
<1> QED  BY Zenon, <1>2, <1>3 DEF Inv

(* The steps that leave state_ and the running turn alone.                 *)
LEMMA ArriveInv ==
  ASSUME Inv, NEW t \in Turns, Arrive(t)
  PROVE  Inv'
BY BoundsAssumption
DEF Arrive, GoTurn, Inv, TurnTypeOK, InTurn, Recorded, Window, SleeperIsCovered,
    Turns, Places, WaiterDelta

LEMMA LoadInv ==
  ASSUME Inv, NEW t \in Turns, Load(t)
  PROVE  Inv'
<1>1. state.turn = t % TurnMod => t = completed
  BY Zenon, CurrentTurn DEF Load
<1>2. TurnTypeOK' /\ Window' /\ SleeperIsCovered'
  BY DEF Load, GoTurn, Inv, TurnTypeOK, Window, SleeperIsCovered, Places
<1>3. InTurn'
  BY Zenon, <1>1 DEF Load, GoTurn, Inv, TurnTypeOK, InTurn
<1>4. Recorded'
  BY Zenon DEF Load, GoTurn, Inv, TurnTypeOK, Recorded, WaiterDelta
<1> QED  BY Zenon, <1>2, <1>3, <1>4 DEF Inv

LEMMA InterruptInv ==
  ASSUME Inv, NEW t \in Turns, Interrupt(t)
  PROVE  Inv'
BY Zenon DEF Interrupt, GoTurn, Inv, TurnTypeOK, InTurn, Recorded, Window,
       SleeperIsCovered, Places, WaiterDelta

LEMMA CompleteLoadInv ==
  ASSUME Inv, NEW t \in Turns, CompleteLoad(t)
  PROVE  Inv'
BY Zenon DEF CompleteLoad, GoTurn, Inv, TurnTypeOK, InTurn, Recorded, Window,
       SleeperIsCovered, Places, WaiterDelta

LEMMA RegisterInv ==
  ASSUME Inv, NEW t \in Turns, Register(t)
  PROVE  Inv'
<1> DEFINE d   == WaiterDelta(t)
           new == encode(seen[t].turn, d)
<1>1. /\ seen[t] \in Words /\ t \in Int
      /\ seen[t].turn \in 0..(TurnMod - 1) /\ seen[t].delta \in 0..MaxDelta
  BY BoundsAssumption DEF Inv, TurnTypeOK, Words, Turns
<1>2. d \in Nat
  BY <1>1, BoundsAssumption DEF WaiterDelta
<1>3. /\ new \in Words /\ new.turn = seen[t].turn % TurnMod
      /\ new.delta = IF d > MaxDelta THEN MaxDelta ELSE d
  BY <1>1, <1>2, encodeType
<1>4. new.turn = seen[t].turn
  BY <1>1, <1>3, BoundsAssumption
<1> HIDE DEF new, d
<1>5. CASE at' = [at EXCEPT ![t] = "futexWait"] /\ UNCHANGED <<state, seen>>
  <2>1. seen[t].delta >= d \/ seen[t].delta = MaxDelta
    BY <1>1, <1>2, <1>3, <1>5, BoundsAssumption
    DEF Register, GoTurn, d, new, Inv, TurnTypeOK
  <2>2. Recorded'
    BY Zenon, <1>5, <2>1 DEF Register, Inv, TurnTypeOK, Recorded, WaiterDelta, d
  <2> QED
    BY Zenon, <1>5, <2>2 DEF Register, Inv, TurnTypeOK, InTurn, Window,
         SleeperIsCovered, Places
<1>6. CASE /\ state = seen[t] /\ state' = new /\ ~(d <= seen[t].delta)
           /\ seen' = [seen EXCEPT ![t] = new]
           /\ at' = [at EXCEPT ![t] = "futexWait"]
  <2>1. TurnTypeOK' /\ Window' /\ InTurn'
    BY Zenon, <1>3, <1>4, <1>6
      DEF Register, Inv, TurnTypeOK, Window, InTurn, Places
  <2>2. Recorded'
    <3>1. (t - new.turn) % TurnMod = d
      BY <1>4 DEF d, WaiterDelta
    <3>2. new.delta >= d \/ new.delta = MaxDelta
      BY <1>2, <1>3, BoundsAssumption
    <3> QED
      BY Zenon, <1>4, <1>6, <3>1, <3>2
      DEF Register, Inv, TurnTypeOK, Recorded, WaiterDelta
  <2>3. state'.delta >= state.delta
    BY <1>1, <1>2, <1>3, <1>6, BoundsAssumption
  <2>4. SleeperIsCovered'
    <3> SUFFICES ASSUME NEW u \in Turns, at'[u] = "asleep"
                 PROVE  \/ /\ u > completed
                           /\ state'.delta >= ((u - completed - 1) % Channels) + 1
                        \/ \E w \in Turns : /\ at'[w] = "wake"
                                            /\ futexChannel(w + 1) = futexChannel(u)
      BY DEF Register, SleeperIsCovered
    <3>1. u # t /\ at[u] = "asleep" /\ u \in Int /\ completed \in Int
      BY <1>6, BoundsAssumption DEF Inv, TurnTypeOK, Turns
    <3>2. CASE /\ u > completed
               /\ state.delta >= ((u - completed - 1) % Channels) + 1
      <4>1. (u - completed - 1) % Channels \in Int /\ state.delta \in Int
            /\ state'.delta \in Int
        BY <1>1, <1>3, <1>6, <3>1, BoundsAssumption DEF Words
      <4> QED  BY <2>3, <3>2, <4>1
    <3>3. CASE \E w \in Turns : /\ at[w] = "wake"
                                /\ futexChannel(w + 1) = futexChannel(u)
      BY Zenon, <1>6, <3>3 DEF Register, Inv, TurnTypeOK
    <3> QED  BY Zenon, <3>1, <3>2, <3>3 DEF Inv, SleeperIsCovered
  <2> QED  BY Zenon, <2>1, <2>2, <2>4 DEF Inv
<1>7. CASE at' = [at EXCEPT ![t] = "load"] /\ UNCHANGED <<state, seen>>
  BY <1>7 DEF Register, Inv, TurnTypeOK, InTurn, Recorded, Window,
       SleeperIsCovered, Places, WaiterDelta
<1> QED  BY Zenon, <1>5, <1>6, <1>7 DEF Register, GoTurn, d, new

LEMMA FutexWaitInv ==
  ASSUME Inv, NEW t \in Turns, FutexWait(t)
  PROVE  Inv'
<1>1. TurnTypeOK' /\ InTurn' /\ Recorded' /\ Window'
  BY DEF FutexWait, GoTurn, Inv, TurnTypeOK, InTurn, Recorded, Window, Places,
       WaiterDelta
<1>2. CASE state = seen[t]
  <2> DEFINE d == t - completed
  <2>1. d \in 0..(TurnMod - 1) /\ (t - state.turn) % TurnMod = d
    BY Zenon, CurrentTurn DEF FutexWait
  <2>2. /\ state.turn # t % TurnMod
        /\ state.delta >= d \/ state.delta = MaxDelta
    BY Zenon, <1>2, <2>1 DEF FutexWait, Inv, Recorded, WaiterDelta
  <2>3. d >= 1 /\ d - 1 \in Nat /\ t \in Int /\ completed \in Int
        /\ state.delta \in Nat
    BY <2>1, <2>2, BoundsAssumption DEF Inv, TurnTypeOK, InTurn, Turns, Words
  <2>4. (d - 1) % Channels <= d - 1 /\ (d - 1) % Channels \in 0..(Channels - 1)
    BY Zenon, <2>3, BoundsAssumption, ModLe
  <2>5. state.delta >= ((d - 1) % Channels) + 1 /\ t > completed
    BY <2>2, <2>3, <2>4, BoundsAssumption, DeltaCoversChannels
  <2>6. SleeperIsCovered'
    BY <1>2, <2>5 DEF FutexWait, GoTurn, Inv, TurnTypeOK, SleeperIsCovered
  <2> QED  BY Zenon, <1>1, <2>6 DEF Inv
<1>3. CASE state # seen[t]
  <2>1. SleeperIsCovered'
    BY <1>3 DEF FutexWait, GoTurn, Inv, TurnTypeOK, SleeperIsCovered
  <2> QED  BY <1>1, <2>1 DEF Inv
<1> QED  BY Zenon, <1>2, <1>3

LEMMA CompleteTurnInv ==
  ASSUME Inv, NEW t \in Turns, CompleteTurn(t)
  PROVE  Inv'
<1>1. CASE state # seen[t]
  BY <1>1 DEF CompleteTurn, Inv, TurnTypeOK, InTurn, Recorded, Window,
       SleeperIsCovered, Places, WaiterDelta
<1>2. CASE state = seen[t]
  <2> DEFINE dec == IF state.delta = 0 THEN 0 ELSE state.delta - 1
  <2>1. /\ t = completed /\ t \in Int /\ state.delta \in 0..MaxDelta
        /\ dec \in 0..MaxDelta /\ MaxDelta \in Nat
    <3>1. at[t] = "complete"
      BY DEF CompleteTurn
    <3>2. t = completed
      BY <3>1 DEF Inv, InTurn
    <3>3. t \in Int /\ MaxDelta \in Nat
      BY BoundsAssumption DEF Turns
    <3>4. state.delta \in 0..MaxDelta
      BY DEF Inv, TurnTypeOK, Words
    <3> QED  BY <3>2, <3>3, <3>4
  <2>2. /\ state' \in Words /\ state'.turn = (t + 1) % TurnMod
        /\ state'.delta = dec
    <3>1. state' = encode(t + 1, dec)
      BY <1>2 DEF CompleteTurn
    <3>2. t + 1 \in Int /\ dec \in Nat /\ ~(dec > MaxDelta)
      BY <2>1
    <3> QED  BY Zenon, <3>1, <3>2, encodeType
  <2>3. TurnTypeOK'
    BY <1>2, <2>1, <2>2, BoundsAssumption
    DEF CompleteTurn, GoTurn, Inv, TurnTypeOK, Places, Turns
  <2>4. InTurn'
    BY <1>2, <2>1, <2>2, BoundsAssumption
    DEF CompleteTurn, GoTurn, Inv, TurnTypeOK, InTurn, Turns
  <2>5. Recorded'
    BY Zenon, <1>2
      DEF CompleteTurn, GoTurn, Inv, TurnTypeOK, Recorded, WaiterDelta
  <2>w. Window'
    BY <1>2, <2>1, BoundsAssumption
    DEF CompleteTurn, GoTurn, Inv, TurnTypeOK, Window, Turns
  <2>6. SleeperIsCovered'
    <3> SUFFICES ASSUME NEW u \in Turns, at'[u] = "asleep"
                 PROVE  \/ /\ u > t + 1
                           /\ dec >= ((u - (t + 1) - 1) % Channels) + 1
                        \/ \E w \in Turns : /\ at'[w] = "wake"
                                            /\ futexChannel(w + 1) = futexChannel(u)
      BY Zenon, <1>2, <2>2 DEF CompleteTurn, SleeperIsCovered
    <3>1. u # t /\ at[u] = "asleep" /\ u \in Int
      BY <1>2, BoundsAssumption DEF CompleteTurn, GoTurn, Inv, TurnTypeOK, Turns
    <3>2. CASE \E w \in Turns : /\ at[w] = "wake"
                                /\ futexChannel(w + 1) = futexChannel(u)
      BY Zenon, <1>2, <3>2 DEF CompleteTurn, GoTurn, Inv, TurnTypeOK
    <3>3. CASE u > t /\ state.delta >= ((u - t - 1) % Channels) + 1
      <4> DEFINE x == u - t - 2
                 m == (u - t - 1) % Channels
      <4>1. m \in 0..(Channels - 1) /\ x \in Int /\ u - t - 1 \in Int
        BY <2>1, <3>1, BoundsAssumption
      <4>2. (x + 1) % Channels
              = IF x % Channels = Channels - 1 THEN 0 ELSE (x % Channels) + 1
        BY Zenon, <4>1, BoundsAssumption, ModSucc
      <4>3. x + 1 = u - t - 1 /\ u - (t + 1) - 1 = x
        BY <2>1, <3>1
      <4>4. CASE m = 0
        <5>1. (u - (t + 1)) % Channels = 0
          <6>1. u - (t + 1) = u - t - 1
            BY <2>1, <3>1
          <6> QED  BY <4>4, <6>1
        <5>2. u % Channels = (t + 1) % Channels
          <6> DEFINE y == t + 1
          <6>1. y \in Int /\ (u - y) % Channels = 0 /\ Channels \in Nat \ {0}
            BY <2>1, <5>1, BoundsAssumption
          <6> HIDE DEF y
          <6>2. u % Channels = y % Channels
            BY Zenon, <3>1, <6>1, ModSame
          <6> QED  BY Zenon, <6>2 DEF y
        <5>3. state.delta # 0
          BY <2>1, <3>3, <4>1, <4>4
        <5>4. at'[t] = "wake"
          BY <1>2, <5>3 DEF CompleteTurn, GoTurn, Inv, TurnTypeOK
        <5> QED  BY <5>2, <5>4 DEF futexChannel
      <4>5. CASE m # 0
        <5>1. m = (x % Channels) + 1
          BY Zenon, <4>2, <4>3, <4>5
        <5>2. dec >= m
          BY <2>1, <3>3, <4>1, BoundsAssumption
        <5>3. u > t + 1
          <6>1. 0 % Channels = 0
            BY BoundsAssumption
          <6>2. u # t + 1
            BY <2>1, <3>1, <4>5, <6>1
          <6> QED  BY <2>1, <3>1, <3>3, <6>2
        <5> QED  BY <4>3, <5>1, <5>2, <5>3
      <4> QED  BY Zenon, <4>4, <4>5
    <3> QED  BY Zenon, <2>1, <3>1, <3>2, <3>3 DEF Inv, SleeperIsCovered
  <2> QED  BY Zenon, <2>3, <2>4, <2>5, <2>w, <2>6 DEF Inv
<1> QED  BY <1>1, <1>2

LEMMA FutexWakeInv ==
  ASSUME Inv, NEW t \in Turns, FutexWake(t)
  PROVE  Inv'
BY DEF FutexWake, Inv, TurnTypeOK, InTurn, Recorded, Window, SleeperIsCovered,
       Places, WaiterDelta

(* Type correctness, turns one at a time and covered sleepers hold in      *)
(* every reachable state.                                                  *)
THEOREM Invariance == TurnSpec => []Inv
<1>1. Inv /\ [TurnNext]_turnVars => Inv'
  <2> SUFFICES ASSUME Inv, [TurnNext]_turnVars PROVE Inv'
    OBVIOUS
  <2>1. CASE TurnNext
    BY <2>1, ArriveInv, LoadInv, RegisterInv, FutexWaitInv, InterruptInv,
       CompleteLoadInv, CompleteTurnInv, FutexWakeInv DEF TurnNext, Step
  <2>2. CASE UNCHANGED turnVars
    BY <2>2 DEF turnVars, Inv, TurnTypeOK, InTurn, Recorded, Window,
         SleeperIsCovered, WaiterDelta
  <2> QED  BY Zenon, <2>1, <2>2
<1> QED  BY <1>1, InitInv, PTL DEF TurnSpec

(* A thread is between waitForTurn and completeTurn only in its own turn,  *)
(* so completeTurn's DCHECK never fails.                                   *)
THEOREM InTurnHolds == TurnSpec => []InTurn
BY Invariance, PTL DEF Inv

(* Whoever sleeps is still recorded for the turn that wakes its channel,   *)
(* or about to be woken.                                                   *)
THEOREM SleeperIsCoveredHolds == TurnSpec => []SleeperIsCovered
BY Invariance, PTL DEF Inv

-----------------------------------------------------------------------------
(***************************************************************************)
(* RingRight for a ring of every size and any number of values.  The       *)
(* inductive invariant counts what was written and given back without ever *)
(* wrapping: an index is such a count modulo the size, the records from    *)
(* the one count to the other are those not yet taken, and all the others  *)
(* are dead.                                                               *)
(***************************************************************************)

Wrote == Len(sent)

(* the record a count is at *)
Cell(i) == i % RingSize

RingTypeOK ==
  /\ records \in [Cells -> Items \cup {Dead}]
  /\ readIndex \in Cells /\ writeIndex \in Cells
  /\ prod \in [pc : {"idle", "construct", "store"}, val : Items \cup {Dead}]
  /\ prod.pc # "idle" => prod.val \in Items
  /\ cons \in {"idle", "move", "store"}
  /\ sent \in Seq(Items) /\ got \in Seq(Items)
  /\ prodGuess \in Int /\ consGuess \in Int
  /\ cons = "store" => Len(got) > 0

(* Where the two indices are, and how far apart.                           *)
Counts ==
  /\ writeIndex = Cell(Wrote) /\ readIndex = Cell(Popped)
  /\ Popped <= Wrote /\ Wrote - Popped < RingSize
  /\ prod.pc # "idle" => Wrote - Popped < RingSize - 1
  /\ cons # "idle" => Popped < Wrote

(* What the records hold: those to be taken, and all the others.           *)
Contents ==
  /\ \A i \in Popped .. Wrote - 1 :
       IF cons = "store" /\ i = Popped THEN records[Cell(i)] = Dead
       ELSE records[Cell(i)] = sent[i + 1]
  /\ \A i \in Wrote .. Popped + RingSize - 1 :
       IF prod.pc = "store" /\ i = Wrote
       THEN records[Cell(i)] = prod.val
       ELSE records[Cell(i)] = Dead

Taken == /\ Len(got) <= Wrote
         /\ \A i \in 1 .. Len(got) : got[i] = sent[i]

Guesses ==
  /\ prod.pc # "idle" => prodGuess = NoGuess
  /\ cons # "idle" => consGuess = NoGuess
  /\ consGuess <= Wrote - Popped
  /\ prodGuess # NoGuess => prodGuess >= Wrote - Popped

RingInv == RingTypeOK /\ Counts /\ Contents /\ Taken /\ Guesses

(* Succ is the next count modulo the size.                                 *)
LEMMA SuccMod ==
  ASSUME NEW x \in Nat
  PROVE  Succ(Cell(x)) = Cell(x + 1)
<1>0. RingSize \in Nat \ {0} /\ x \in Int
  BY RingSizeAssumption
<1>1. (x + 1) % RingSize
        = IF x % RingSize = RingSize - 1 THEN 0 ELSE (x % RingSize) + 1
  BY <1>0, ModSucc, Zenon
<1>2. x % RingSize \in 0 .. (RingSize - 1)
  BY ModLe, RingSizeAssumption
<1> QED  BY <1>1, <1>2, RingSizeAssumption DEF Succ, Cell

(* A count's index is a record of the ring.                                *)
LEMMA ModCell ==
  ASSUME NEW x \in Nat
  PROVE  Cell(x) \in Cells
BY ModLe, RingSizeAssumption DEF Cells, Cell

(* Counts less than the size apart share no record.                        *)
LEMMA ModOther ==
  ASSUME NEW x \in Nat, NEW y \in Nat, x < y, y - x < RingSize
  PROVE  Cell(x) # Cell(y)
<1>1. RingSize \in Nat \ {0} /\ x \in Int /\ y \in Int
  BY RingSizeAssumption
<1>2. 0 <= y - x /\ y # x
  OBVIOUS
<1>3. y % RingSize # x % RingSize
  BY <1>1, <1>2, ModApart, Zenon
<1> QED  BY <1>3 DEF Cell

(* sizeGuess() read at one instant is exact.                               *)
LEMMA GuessExact ==
  ASSUME RingTypeOK, Counts
  PROVE  SizeGuess = Wrote - Popped
<1> DEFINE S == RingSize
           w == Wrote
           p == Popped
           W == w % S
           R == p % S
<1>1. S \in Nat \ {0} /\ w \in Nat /\ p \in Nat /\ p <= w /\ w - p < S
  BY RingSizeAssumption, LenProperties DEF RingTypeOK, Counts, Wrote, Popped
<1>2. W \in 0 .. (S - 1) /\ R \in 0 .. (S - 1)
  BY Zenon, <1>1, ModLe
<1>3. (w - R) % S = (w - p) % S
  <2>1. w \in Int /\ p \in Int
    BY <1>1
  <2> HIDE DEF S, w, p
  <2> QED  BY <1>1, <2>1, ModDiff, Zenon
<1>4. (w - p) % S = w - p
  BY <1>1
<1>5. (W - R) % S = (w - R) % S
  <2>1. w = S * (w \div S) + (w % S) /\ w \div S \in Int
    <3> HIDE DEF w, S
    <3> QED  BY <1>1
  <2> DEFINE k == w \div S
             m == W
             r == R
  <2>2. k \in Int /\ m \in Int /\ r \in Int /\ w = S * k + m
    BY <2>1, <1>2
  <2> HIDE DEF k, m, r
  <2>3. ((m - r) + S * k) % S = (m - r) % S
    <3>1. m - r \in Int
      BY <2>2
    <3> HIDE DEF S
    <3> QED  BY <1>1, <2>2, <3>1, ModShift, Zenon
  <2>4. (m - r) + S * k = w - r
    BY <2>2, <1>1
  <2> QED  BY Zenon, <2>3, <2>4 DEF m, r
<1>6. IF W - R < 0 THEN (W - R) % S = W - R + S ELSE (W - R) % S = W - R
  <2> DEFINE d == W - R
  <2>1. d \in Int /\ d < S /\ d > -S
    BY <1>1, <1>2
  <2> HIDE DEF d
  <2>2. CASE d < 0
    <3>1. (S * (-1) + (d + S)) % S = d + S
      BY <1>1, <2>1, <2>2, ModUnique
    <3>2. S * (-1) + (d + S) = d
      BY <1>1, <2>1
    <3> QED  BY Zenon, <3>1, <3>2, <2>2 DEF d
  <2>3. CASE d >= 0
    BY <1>1, <2>1, <2>3 DEF d
  <2> QED  BY <2>1, <2>2, <2>3
<1>7. writeIndex = W /\ readIndex = R
  BY Zenon DEF Counts, Cell
<1> QED  BY Zenon, <1>1, <1>2, <1>3, <1>4, <1>5, <1>6, <1>7 DEF SizeGuess

(* The ring starts empty.                                                  *)
LEMMA RingInitInv == RingInit => RingInv
<1> SUFFICES ASSUME RingInit PROVE RingInv
  BY Zenon
<1> USE RingSizeAssumption DEF RingInit
<1>1. Wrote = 0 /\ Popped = 0
  BY Zenon DEF Wrote, Popped
<1>2. Cell(0) = 0
  BY ModLe DEF Cell
<1>3. RingTypeOK
  BY DEF RingTypeOK, Cells, NoGuess
<1>4. Counts
  BY <1>1, <1>2 DEF Counts
<1>5. Contents
  <2>1. \A i \in 0 .. RingSize - 1 : records[Cell(i)] = Dead
    BY ModCell
  <2> QED  BY <1>1, <2>1 DEF Contents
<1> QED  BY <1>1, <1>3, <1>4, <1>5 DEF RingInv, Taken, Guesses, NoGuess

(* A room seen by the producer, a record seen by the consumer.             *)
LEMMA RoomSeen ==
  ASSUME RingTypeOK, Counts
  PROVE  /\ Wrote \in Nat /\ Popped \in Nat
         /\ Succ(writeIndex) # readIndex => Wrote - Popped < RingSize - 1
         /\ readIndex # writeIndex => Popped < Wrote
<1>1. Wrote \in Nat /\ Popped \in Nat
  BY LenProperties DEF RingTypeOK, Wrote, Popped
<1>2. Popped <= Wrote /\ Wrote - Popped < RingSize
  BY Zenon DEF Counts
<1>3. ASSUME Wrote - Popped = RingSize - 1
      PROVE  Succ(writeIndex) = readIndex
  <2>1. Succ(writeIndex) = Cell(Wrote + 1)
    BY Zenon, <1>1, SuccMod DEF Counts
  <2>2. Wrote + 1 = Popped + RingSize * 1
    BY <1>1, <1>3, RingSizeAssumption
  <2>3. RingSize \in Nat \ {0} /\ Popped \in Int /\ 1 \in Int
    BY <1>1, RingSizeAssumption
  <2>4. (Popped + RingSize * 1) % RingSize = Popped % RingSize
    BY <2>3, ModShift, Zenon
  <2> QED  BY Zenon, <2>1, <2>2, <2>4 DEF Cell, Counts
<1> QED  BY <1>1, <1>2, <1>3, RingSizeAssumption DEF Counts

(* The producer's steps keep the invariant.                                *)
LEMMA ProducerKeeps ==
  ASSUME RingInv,
         (\E v \in Items : WriteCheck(v)) \/ WriteConstruct \/ WriteStore
           \/ ProducerGuess
  PROVE  RingInv'
<1> USE RingSizeAssumption, DeadAssumption
<1>1. RingTypeOK /\ Counts /\ Contents /\ Taken /\ Guesses
  BY Zenon DEF RingInv
<1>2. Wrote \in Nat /\ Popped \in Nat /\ Popped <= Wrote
  BY Zenon, <1>1, RoomSeen DEF Counts
<1>3. ASSUME NEW v \in Items, WriteCheck(v) PROVE RingInv'
  <2>1. Wrote' = Wrote /\ Popped' = Popped
    BY Zenon, <1>3 DEF WriteCheck, Wrote, Popped
  <2>2. RingTypeOK'
    BY <1>1, <1>3 DEF WriteCheck, RingTypeOK, NoGuess
  <2>3. Counts'
    BY Zenon, <1>1, <1>3, <2>1, RoomSeen DEF WriteCheck, Counts
  <2>4. Contents'
    BY Zenon, <1>1, <1>3, <2>1 DEF WriteCheck, Contents
  <2>5. Taken' /\ Guesses'
    BY Zenon, <1>1, <1>3, <2>1 DEF WriteCheck, Taken, Guesses
  <2> QED  BY Zenon, <2>2, <2>3, <2>4, <2>5 DEF RingInv
<1>4. CASE WriteConstruct
  <2>1. Wrote' = Wrote /\ Popped' = Popped
    BY <1>4 DEF WriteConstruct, Wrote, Popped
  <2>2. RingTypeOK'
    BY Zenon, <1>1, <1>4 DEF WriteConstruct, RingTypeOK
  <2>3. Counts'
    BY Zenon, <1>1, <1>4, <2>1 DEF WriteConstruct, Counts
  <2>4. Contents'
    <3>1. /\ writeIndex = Cell(Wrote) /\ Cell(Wrote) \in Cells
          /\ Wrote - Popped < RingSize - 1
      BY Zenon, <1>1, <1>2, <1>4, ModCell DEF WriteConstruct, Counts
    <3>2. /\ records' = [records EXCEPT ![Cell(Wrote)] = prod.val]
          /\ prod'.pc = "store" /\ prod'.val = prod.val /\ cons' = cons
          /\ sent' = sent
      BY Zenon, <1>1, <1>4, <3>1 DEF WriteConstruct, RingTypeOK
    <3>3. ASSUME NEW i \in Popped .. Popped + RingSize - 1, i # Wrote
          PROVE  records'[Cell(i)] = records[Cell(i)]
      <4>1. Cell(i) # Cell(Wrote)
        <5>1. CASE i < Wrote
          BY <1>1, <1>2, <5>1, ModOther DEF Counts
        <5>2. CASE i > Wrote
          BY <1>1, <1>2, <5>2, ModOther DEF Counts
        <5> QED  BY <5>1, <5>2, <1>2, <3>3
      <4>2. Cell(i) \in Cells
        BY <1>2, ModCell
      <4> QED  BY Zenon, <3>2, <4>1, <4>2, <1>1 DEF RingTypeOK
    <3>4. records'[Cell(Wrote)] = prod.val
      BY Zenon, <3>1, <3>2, <1>1 DEF RingTypeOK
    <3>5. ASSUME NEW i \in Popped .. Wrote - 1
          PROVE  IF cons = "store" /\ i = Popped THEN records'[Cell(i)] = Dead
                 ELSE records'[Cell(i)] = sent[i + 1]
      <4>1. records'[Cell(i)] = records[Cell(i)]
        BY <1>2, <3>1, <3>3
      <4> QED  BY Zenon, <4>1, <1>1 DEF Contents
    <3>6. ASSUME NEW i \in Wrote .. Popped + RingSize - 1
          PROVE  IF i = Wrote THEN records'[Cell(i)] = prod.val
                 ELSE records'[Cell(i)] = Dead
      <4>1. CASE i = Wrote
        BY Zenon, <4>1, <3>4
      <4>2. CASE i # Wrote
        <5>1. records'[Cell(i)] = records[Cell(i)]
          BY <1>2, <4>2, <3>3
        <5> QED  BY Zenon, <5>1, <4>2, <1>1 DEF Contents
      <4> QED  BY Zenon, <4>1, <4>2
    <3> QED  BY Zenon, <2>1, <3>2, <3>5, <3>6 DEF Contents
  <2>5. Taken' /\ Guesses'
    BY Zenon, <1>1, <1>4, <2>1 DEF WriteConstruct, Taken, Guesses, RingTypeOK
  <2> QED  BY Zenon, <2>2, <2>3, <2>4, <2>5 DEF RingInv
<1>5. CASE WriteStore
  <2> DEFINE w == Wrote
             p == Popped
  <2>1. Wrote' = Wrote + 1 /\ Popped' = Popped
    BY Zenon, <1>1, <1>5, AppendProperties
       DEF WriteStore, Wrote, Popped, RingTypeOK
  <2>2. prod.pc = "store" /\ prod'.pc = "idle" /\ prod.val \in Items
    BY Zenon, <1>1, <1>5 DEF WriteStore, RingTypeOK
  <2>3. writeIndex' = Cell(Wrote + 1)
    BY Zenon, <1>1, <1>2, <1>5, SuccMod DEF WriteStore, Counts
  <2>4. RingTypeOK'
    <3>1. writeIndex' \in Cells
      BY <1>2, <2>3, ModCell
    <3>2. prod' \in [pc : {"idle", "construct", "store"},
                     val : Items \cup {Dead}]
      BY Zenon, <1>1, <1>5 DEF WriteStore, RingTypeOK
    <3>3. sent' \in Seq(Items)
      BY <1>1, <1>5, <2>2, AppendProperties DEF WriteStore, RingTypeOK
    <3> QED  BY Zenon, <1>1, <1>5, <2>2, <3>1, <3>2, <3>3
               DEF WriteStore, RingTypeOK
  <2>5. Counts'
    BY <1>1, <1>2, <1>5, <2>1, <2>2, <2>3 DEF WriteStore, Counts
  <2>6. /\ \A i \in 1 .. w : sent'[i] = sent[i]
        /\ sent'[w + 1] = prod.val
    BY <1>1, <1>5, <2>2, AppendProperties DEF WriteStore, RingTypeOK, Wrote
  <2>7. records' = records /\ cons' = cons /\ got' = got
    BY Zenon, <1>5 DEF WriteStore
  <2>8. Contents'
    <3> HIDE DEF w, p
    <3>1. /\ w \in Nat /\ p \in Nat /\ p <= w
          /\ Wrote' = w + 1 /\ Popped' = p /\ Wrote = w /\ Popped = p
          /\ w - p < RingSize - 1
          /\ cons = "store" => p < w
      BY Zenon, <1>1, <1>2, <2>1, <2>2 DEF w, p, Counts
    <3>2. ASSUME NEW i \in p .. w
          PROVE  IF cons = "store" /\ i = p THEN records[Cell(i)] = Dead
                 ELSE records[Cell(i)] = sent'[i + 1]
      <4>1. CASE i = w
        <5>1. records[Cell(w)] = prod.val
          BY <3>1, <2>2, <1>1 DEF Contents
        <5> QED  BY <4>1, <5>1, <3>1, <2>6
      <4>2. CASE i < w
        BY <4>2, <3>1, <2>6, <1>1 DEF Contents
      <4> QED  BY <4>1, <4>2, <3>1
    <3>3. ASSUME NEW i \in w + 1 .. p + RingSize - 1
          PROVE  records[Cell(i)] = Dead
      BY <3>1, <1>1 DEF Contents
    <3> QED  BY <3>1, <3>2, <3>3, <2>2, <2>7 DEF Contents
  <2>9. Taken'
    BY <1>1, <1>2, <2>1, <2>6, <2>7, LenProperties DEF Taken, RingTypeOK
  <2>10. Guesses'
    BY <1>1, <1>2, <1>5, <2>1, <2>2 DEF WriteStore, Guesses, RingTypeOK
  <2> QED  BY Zenon, <2>4, <2>5, <2>8, <2>9, <2>10 DEF RingInv
<1>6. CASE ProducerGuess
  <2>1. Wrote' = Wrote /\ Popped' = Popped
    BY Zenon, <1>6 DEF ProducerGuess, Wrote, Popped
  <2>2. prodGuess' = Wrote - Popped
    BY Zenon, <1>1, <1>6, GuessExact DEF ProducerGuess
  <2>3. RingTypeOK'
    BY <1>1, <1>2, <1>6, <2>2 DEF ProducerGuess, RingTypeOK
  <2>4. Counts' /\ Contents'
    BY Zenon, <1>1, <1>6, <2>1 DEF ProducerGuess, Counts, Contents
  <2>5. Taken' /\ Guesses'
    BY <1>1, <1>2, <1>6, <2>1, <2>2 DEF ProducerGuess, Taken, Guesses
  <2> QED  BY Zenon, <2>3, <2>4, <2>5 DEF RingInv
<1> QED  BY Zenon, <1>3, <1>4, <1>5, <1>6

(* The consumer's steps keep the invariant.                                *)
LEMMA ConsumerKeeps ==
  ASSUME RingInv, ReadCheck \/ ReadMove \/ ReadStore \/ ConsumerGuess
  PROVE  RingInv'
<1> USE RingSizeAssumption, DeadAssumption
<1>1. RingTypeOK /\ Counts /\ Contents /\ Taken /\ Guesses
  BY Zenon DEF RingInv
<1>2. Wrote \in Nat /\ Popped \in Nat /\ Popped <= Wrote
  BY Zenon, <1>1, RoomSeen DEF Counts
<1>3. CASE ReadCheck
  <2>1. Wrote' = Wrote /\ Popped' = Popped /\ Popped < Wrote
    BY Zenon, <1>1, <1>3, RoomSeen DEF ReadCheck, Wrote, Popped
  <2>2. RingTypeOK'
    BY <1>1, <1>3 DEF ReadCheck, RingTypeOK, NoGuess
  <2>3. Counts' /\ Contents'
    BY Zenon, <1>1, <1>3, <2>1 DEF ReadCheck, Counts, Contents
  <2>4. Taken' /\ Guesses'
    BY <1>1, <1>2, <1>3, <2>1 DEF ReadCheck, Taken, Guesses, NoGuess
  <2> QED  BY Zenon, <2>2, <2>3, <2>4 DEF RingInv
<1>4. CASE ReadMove
  <2> DEFINE w == Wrote
             p == Popped
  <2>1. /\ cons = "move" /\ cons' = "store" /\ prod' = prod /\ sent' = sent
        /\ p = Len(got) /\ p < w /\ w - p < RingSize
    BY Zenon, <1>1, <1>4 DEF ReadMove, Popped, Counts
  <2>2. readIndex = Cell(p) /\ Cell(p) \in Cells
    BY Zenon, <1>1, <1>2, ModCell DEF Counts
  <2>3. records[readIndex] = sent[p + 1] /\ sent[p + 1] \in Items
    <3>1. records[Cell(p)] = sent[p + 1]
      BY <1>1, <1>2, <2>1 DEF Contents
    <3>2. p + 1 \in 1 .. Len(sent)
      BY <1>2, <2>1 DEF Wrote
    <3>3. sent[p + 1] \in Items
      BY Zenon, <1>1, <3>2, ElementOfSeq DEF RingTypeOK
    <3> QED  BY Zenon, <2>2, <3>1, <3>3
  <2>4. /\ got' \in Seq(Items) /\ Len(got') = p + 1
        /\ \A i \in 1 .. p : got'[i] = got[i]
        /\ got'[p + 1] = sent[p + 1]
    BY <1>1, <1>4, <2>1, <2>3, AppendProperties DEF ReadMove, RingTypeOK
  <2>5. Wrote' = w /\ Popped' = p
    BY <1>2, <2>1, <2>4 DEF Wrote, Popped
  <2>6. RingTypeOK'
    BY <1>1, <1>2, <1>4, <2>4 DEF ReadMove, RingTypeOK
  <2>7. Counts'
    BY Zenon, <1>1, <1>4, <2>1, <2>5 DEF ReadMove, Counts
  <2>8. Contents'
    <3>1. records' = [records EXCEPT ![Cell(p)] = Dead]
      BY Zenon, <1>4, <2>2 DEF ReadMove
    <3>2. ASSUME NEW i \in p + 1 .. p + RingSize - 1
          PROVE  records'[Cell(i)] = records[Cell(i)]
      <4>1. Cell(i) # Cell(p)
        BY <1>2, ModOther
      <4>2. Cell(i) \in Cells
        BY <1>2, ModCell
      <4> QED  BY Zenon, <3>1, <4>1, <4>2, <1>1 DEF RingTypeOK
    <3>3. records'[Cell(p)] = Dead
      BY Zenon, <3>1, <2>2, <1>1 DEF RingTypeOK
    <3>4. ASSUME NEW i \in p .. w - 1
          PROVE  IF i = p THEN records'[Cell(i)] = Dead
                 ELSE records'[Cell(i)] = sent[i + 1]
      <4>1. CASE i = p
        BY Zenon, <4>1, <3>3
      <4>2. CASE i # p
        <5>1. records'[Cell(i)] = records[Cell(i)]
          BY <1>2, <2>1, <4>2, <3>2
        <5> QED  BY Zenon, <5>1, <4>2, <2>1, <1>1 DEF Contents
      <4> QED  BY Zenon, <4>1, <4>2
    <3>5. ASSUME NEW i \in w .. p + RingSize - 1
          PROVE  IF prod.pc = "store" /\ i = w
                 THEN records'[Cell(i)] = prod.val
                 ELSE records'[Cell(i)] = Dead
      <4>1. records'[Cell(i)] = records[Cell(i)]
        BY <1>2, <2>1, <3>2
      <4> QED  BY Zenon, <4>1, <1>1 DEF Contents
    <3> QED  BY Zenon, <2>1, <2>5, <3>4, <3>5 DEF Contents
  <2>9. Taken'
    BY <1>1, <1>2, <2>1, <2>4, <2>5 DEF Taken
  <2>10. Guesses'
    BY Zenon, <1>1, <1>4, <2>1, <2>5 DEF ReadMove, Guesses
  <2> QED  BY Zenon, <2>6, <2>7, <2>8, <2>9, <2>10 DEF RingInv
<1>5. CASE ReadStore
  <2> DEFINE w == Wrote
             p == Popped
  <2>1. /\ cons = "store" /\ cons' = "idle" /\ got' = got /\ sent' = sent
        /\ records' = records /\ prod' = prod /\ p < w
    BY Zenon, <1>1, <1>5 DEF ReadStore, Counts
  <2>2. Wrote' = w /\ Popped' = p + 1
    BY <1>1, <2>1, LenProperties DEF Wrote, Popped, RingTypeOK
  <2>3. readIndex' = Cell(p + 1) /\ Cell(p + 1) \in Cells
    BY <1>1, <1>2, <1>5, SuccMod, ModCell DEF ReadStore, Counts
  <2>4. RingTypeOK'
    BY Zenon, <1>1, <1>5, <2>3 DEF ReadStore, RingTypeOK
  <2>5. Counts'
    BY <1>1, <1>2, <1>5, <2>1, <2>2, <2>3 DEF ReadStore, Counts
  <2>6. Contents'
    <3> HIDE DEF w, p
    <3>1. /\ w \in Nat /\ p \in Nat /\ p < w /\ Wrote = w /\ Popped = p
          /\ Wrote' = w /\ Popped' = p + 1 /\ w - p < RingSize
          /\ prod.pc = "store" => w - p < RingSize - 1
      BY Zenon, <1>1, <1>2, <2>1, <2>2 DEF w, p, Counts
    <3>2. ASSUME NEW i \in p + 1 .. w - 1
          PROVE  records[Cell(i)] = sent[i + 1]
      BY <1>1, <2>1, <3>1 DEF Contents
    <3>3. ASSUME NEW i \in w .. p + RingSize
          PROVE  IF prod.pc = "store" /\ i = w THEN records[Cell(i)] = prod.val
                 ELSE records[Cell(i)] = Dead
      <4>1. CASE i < p + RingSize
        BY <4>1, <1>1, <3>1 DEF Contents
      <4>2. CASE i = p + RingSize
        <5>1. RingSize \in Nat \ {0} /\ p \in Int /\ 1 \in Int
          BY <3>1
        <5>2. (p + RingSize * 1) % RingSize = p % RingSize
          BY <5>1, ModShift, Zenon
        <5>3. p + RingSize * 1 = p + RingSize
          BY <3>1
        <5>4. Cell(i) = Cell(p)
          BY Zenon, <4>2, <5>2, <5>3 DEF Cell
        <5>5. records[Cell(p)] = Dead
          BY <1>1, <2>1, <3>1 DEF Contents
        <5> QED  BY <4>2, <5>4, <5>5, <3>1
      <4> QED  BY <4>1, <4>2, <3>1
    <3> QED  BY <2>1, <3>1, <3>2, <3>3 DEF Contents
  <2>7. Taken'
    BY Zenon, <1>1, <2>1, <2>2 DEF Taken
  <2>8. Guesses'
    BY <1>1, <1>2, <1>5, <2>1, <2>2 DEF ReadStore, Guesses, NoGuess, RingTypeOK
  <2> QED  BY Zenon, <2>4, <2>5, <2>6, <2>7, <2>8 DEF RingInv
<1>6. CASE ConsumerGuess
  <2>1. Wrote' = Wrote /\ Popped' = Popped
    BY Zenon, <1>6 DEF ConsumerGuess, Wrote, Popped
  <2>2. consGuess' = Wrote - Popped
    BY Zenon, <1>1, <1>6, GuessExact DEF ConsumerGuess
  <2>3. RingTypeOK'
    BY <1>1, <1>2, <1>6, <2>2 DEF ConsumerGuess, RingTypeOK
  <2>4. Counts' /\ Contents'
    BY Zenon, <1>1, <1>6, <2>1 DEF ConsumerGuess, Counts, Contents
  <2>5. Taken' /\ Guesses'
    BY <1>1, <1>2, <1>6, <2>1, <2>2 DEF ConsumerGuess, Taken, Guesses
  <2> QED  BY Zenon, <2>3, <2>4, <2>5 DEF RingInv
<1> QED  BY Zenon, <1>3, <1>4, <1>5, <1>6

(* The invariant says what RingRight promises.                             *)
LEMMA RingInvRight == RingInv => RingRight
<1> SUFFICES ASSUME RingInv PROVE RingRight
  OBVIOUS
<1>1. RingTypeOK /\ Counts /\ Contents /\ Taken /\ Guesses
  BY Zenon DEF RingInv
<1>2. Wrote \in Nat /\ Popped \in Nat
  BY Zenon, <1>1, RoomSeen
<1>3. prod.pc = "construct" => records[writeIndex] = Dead
  BY <1>1, <1>2, RingSizeAssumption DEF Counts, Contents
<1>4. cons = "move" => records[readIndex] \in Items
  <2> SUFFICES ASSUME cons = "move" PROVE records[readIndex] \in Items
    BY Zenon
  <2>1. Popped < Wrote /\ readIndex = Cell(Popped)
    BY Zenon, <1>1 DEF Counts
  <2>2. records[Cell(Popped)] = sent[Popped + 1]
    BY <1>1, <1>2, <2>1 DEF Contents
  <2>3. Popped + 1 \in 1 .. Len(sent)
    BY <1>2, <2>1 DEF Wrote
  <2> QED  BY Zenon, <1>1, <2>1, <2>2, <2>3, ElementOfSeq DEF RingTypeOK
<1> QED  BY Zenon, <1>1, <1>3, <1>4 DEF RingRight, Taken, Counts, Guesses, Wrote

(* For a ring of every size: the consumer gets what was written, in order, *)
(* no record is constructed over or taken twice, and sizeGuess() errs only *)
(* to the side ProducerConsumerQueue.h promises each caller.               *)
THEOREM RingCorrect == RingSpec => []RingRight
<1>1. RingInv /\ [RingNext]_ringVars => RingInv'
  <2> SUFFICES ASSUME RingInv, [RingNext]_ringVars PROVE RingInv'
    OBVIOUS
  <2>1. CASE RingNext
    BY Zenon, <2>1, ProducerKeeps, ConsumerKeeps DEF RingNext
  <2>2. CASE UNCHANGED ringVars
    BY <2>2 DEF ringVars, RingInv, RingTypeOK, Counts, Contents, Taken, Guesses,
                Wrote, Popped
  <2> QED  BY Zenon, <2>1, <2>2
<1> QED  BY <1>1, RingInitInv, RingInvRight, PTL DEF RingSpec

=============================================================================
