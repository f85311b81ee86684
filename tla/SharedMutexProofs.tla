------------------------- MODULE SharedMutexProofs -------------------------
(***************************************************************************)
(* The theorems about SharedMutex, with either priority, for every finite  *)
(* set of threads and of slots: locks exclude each other, every shared     *)
(* lock is counted once, the assertions of the code hold, and no wakeup is *)
(* lost.                                                                   *)
(***************************************************************************)
EXTENDS SharedMutexInvariant

-----------------------------------------------------------------------------
(* Actions of writers and upgraders *)

(* Where a call goes that ends without a lock, or with one.                *)
LEMMA Ends ==
  ASSUME NEW p \in {"idle", "S", "U"}, NEW k \in Tokens, NEW b,
         b = [Away EXCEPT !.at = p, !.token = k]
  PROVE  /\ b \in ThreadType /\ b.at \in Places \ {"apply"} /\ b.at = p
         /\ b.back = "idle"
         /\ Core(b).at = p /\ Flow(Core(b))
<1>1. p \in Places
  BY DEF Places
<1>2. /\ b \in ThreadType /\ b.at = p /\ b.back = "idle" /\ b.seen = {}
      /\ b.moved = 0
  BY Zenon, <1>1, AwayType DEF ThreadType
<1>3. /\ Core(b).at = p /\ Core(b).back = "idle" /\ Core(b).seen = {}
      /\ Core(b).moved = 0
  BY Zenon, <1>1, <1>2, CoreFields
<1>4. Flow(Core(b))
  BY Zenon, <1>3 DEF Flow
<1> QED  BY <1>1, <1>2, <1>3, <1>4

LEMMA AwayEnds ==
  /\ Away \in ThreadType /\ Away.at \in Places \ {"apply"} /\ Away.back = "idle"
  /\ Core(Away).at = "idle" /\ Flow(Core(Away)) /\ ~Core(Away).up
<1>1. "idle" \in Places
  BY Zenon DEF Places
<1>2. /\ Core(Away).at = "idle" /\ Core(Away).back = "idle"
      /\ Core(Away).seen = {} /\ Core(Away).moved = 0 /\ ~Core(Away).up
  BY Zenon, <1>1, AwayType, CoreFields
<1>3. Flow(Core(Away))
  BY Zenon, <1>2 DEF Flow
<1> QED  BY Zenon, <1>1, <1>2, <1>3, AwayType

(* A writer leaves, and wakes whom it has kept.                            *)
LEMMA WriterLeaves ==
  ASSUME Sizes, IInv, NEW t \in Users, th[t].at \in {"drain", "E"},
         slots' = slots, word' \in WordType,
         NEW b \in ThreadType, Flow(Core(b)), Core(b).at \in {"idle", "S", "U"},
         NEW x \in ThreadType, th' = [th EXCEPT ![t] = x], Core(x) = Core(b),
         NEW k \in Int, k = IF Core(b).at = "S" THEN 1 ELSE 0,
         word'.s = (word.s + k) % Readers,
         word'.hasU <=> Core(b).at = "U", word'.mayDefer = word.mayDefer,
         ~word'.hasE, ~word'.begunE, ~word'.prevDefer, ~word'.waitNotS
  PROVE  IInv'
<1>1. /\ th \in [Users -> ThreadType] /\ LockInv(word, slots, core)
      /\ th[t].at \in Places => core[t].at = th[t].at
  BY Zenon, Start
<1>2. core[t].at \in {"drain", "E"}
  BY Zenon, <1>1 DEF Places
<1>3. th' \in [Users -> ThreadType] /\ Moves(core, t, Core(x), core')
  BY Zenon, <1>1, OneMoves
<1>4. LockInv(word', slots, core')
  BY Zenon, <1>1, <1>2, <1>3, LeaveStep
<1> QED  BY Zenon, <1>3, <1>4 DEF IInv

(* The reader count of a word that keeps it.                               *)
LEMMA SameCount ==
  ASSUME Sizes, NEW w \in WordType
  PROVE  /\ w.s = (w.s + 0) % Readers /\ w.s \in 0..(Readers - 1)
         /\ 0 \in Int
<1>1. w.s \in 0..(Readers - 1) /\ Readers \in Nat
  BY Zenon DEF WordType, Sizes
<1> QED  BY <1>1

(* unlock                                                                  *)
LEMMA UnlockInv ==
  ASSUME Sizes, IInv, NEW t \in Users, Unlock(t)
  PROVE  IInv'
<1>1. /\ th \in [Users -> ThreadType] /\ word \in WordType
      /\ th[t].at = "E" /\ slots' = slots /\ core[t].at = "E"
      /\ LockInv(word, slots, core)
  BY Zenon, Start DEF Unlock, Places
<1>2. ~word.begunE /\ ~word.hasU
  BY <1>1 DEF LockInv, Solo
<1>3. /\ word' \in WordType /\ word'.s = word.s /\ word'.hasU = word.hasU
      /\ word'.mayDefer = word.mayDefer /\ ~word'.hasE
      /\ word'.begunE = word.begunE /\ ~word'.prevDefer /\ ~word'.waitNotS
  BY Zenon, <1>1 DEF Unlock, WordType
<1>4. PICK M \in Masks : ThenWake(t, word', M, Away)
  BY DEF Unlock, Masks
<1>5. PICK x \in ThreadType : th' = [th EXCEPT ![t] = x] /\ Core(x) = Core(Away)
  <2>1. /\ Away \in ThreadType /\ Away.at \in Places \ {"apply"}
        /\ Away.back = "idle"
    BY Zenon, AwayEnds
  <2>2. Lands(t, Away)
    BY Zenon, <1>1, <1>4, <2>1, WakeMoves
  <2> QED  BY Zenon, <2>2 DEF Lands
<1>6. /\ word'.s = (word.s + 0) % Readers
      /\ 0 = IF Core(Away).at = "S" THEN 1 ELSE 0
      /\ word'.hasU <=> Core(Away).at = "U"
      /\ 0 \in Int
  BY Zenon, <1>1, <1>2, <1>3, SameCount, AwayEnds
<1> QED  BY Zenon, <1>1, <1>2, <1>3, <1>5, <1>6, AwayEnds, WriterLeaves

(* A wait ends because of its timeout.                                     *)
LEMMA TimeOutInv ==
  ASSUME Sizes, IInv, NEW t \in Users, TimeOut(t)
  PROVE  IInv'
<1>1. /\ th \in [Users -> ThreadType] /\ th[t] \in ThreadType
      /\ LockInv(word, slots, core) /\ word \in WordType
      /\ core[t].up = th[t].up
      /\ th[t].at \in Places => core[t].at = th[t].at
  BY Start
<1>2. /\ th[t].at \in {"lock", "drain", "shared", "upgrade"} /\ ~th[t].up
      /\ slots' = slots
  BY Zenon DEF TimeOut, WaitMask
<1>3. core[t].at = th[t].at /\ ~core[t].up
  BY Zenon, <1>1, <1>2 DEF Places
<1>4. CASE th[t].at # "drain"
  <2>1. th' = [th EXCEPT ![t] = Away] /\ word' = word
    BY Zenon, <1>4 DEF TimeOut
  <2>2. th' \in [Users -> ThreadType] /\ Moves(core, t, Core(Away), core')
    BY Zenon, <1>1, <2>1, AwayEnds, OneMoves
  <2>3. /\ {core[t].at, Core(Away).at} \subseteq
             {"idle", "lock", "U", "upgrade", "shared", "slot"}
        /\ Up(Core(Away)) <=> Up(core[t])
    BY Zenon, <1>2, <1>3, <1>4, AwayEnds DEF Up
  <2>4. LockInv(word, slots, core')
    BY Zenon, <1>1, <2>2, <2>3, AwayEnds, SameBits, AsideStep
  <2> QED  BY <1>2, <2>1, <2>2, <2>4 DEF IInv
<1>5. CASE th[t].at = "drain"
  <2>1. ~word.hasU
    BY <1>1, <1>3, <1>5 DEF LockInv, Solo, Wr
  <2>2. /\ word' = [word EXCEPT !.prevDefer = FALSE, !.hasE = FALSE,
                                !.begunE = FALSE, !.waitNotS = FALSE]
        /\ ThenWake(t, word', {"E", "U", "S"}, Away)
    BY <1>5 DEF TimeOut
  <2>3. /\ word' \in WordType /\ word'.s = word.s /\ word'.hasU = word.hasU
        /\ word'.mayDefer = word.mayDefer /\ ~word'.hasE /\ ~word'.begunE
        /\ ~word'.prevDefer /\ ~word'.waitNotS
    BY Zenon, <1>1, <2>2 DEF WordType
  <2>4. PICK M \in Masks : ThenWake(t, word', M, Away)
    BY <2>2 DEF Masks
  <2>5. PICK x \in ThreadType : th' = [th EXCEPT ![t] = x] /\ Core(x) = Core(Away)
    <3>1. /\ Away \in ThreadType /\ Away.at \in Places \ {"apply"}
          /\ Away.back = "idle"
      BY Zenon, AwayEnds
    <3>2. Lands(t, Away)
      BY Zenon, <1>1, <2>4, <3>1, WakeMoves
    <3> QED  BY Zenon, <3>2 DEF Lands
  <2>6. /\ word'.s = (word.s + 0) % Readers
        /\ 0 = IF Core(Away).at = "S" THEN 1 ELSE 0
        /\ word'.hasU <=> Core(Away).at = "U"
        /\ 0 \in Int
    BY Zenon, <1>1, <2>1, <2>3, SameCount, AwayEnds
  <2> QED  BY Zenon, <1>2, <1>5, <2>3, <2>5, <2>6, AwayEnds, WriterLeaves
<1> QED  BY Zenon, <1>4, <1>5

(* Waking all before going to b is going to b.                             *)
LEMMA DowngradeMoves ==
  ASSUME th \in [Users -> ThreadType], NEW t \in Users, NEW w, NEW M \in Masks,
         NEW b \in ThreadType, b.at \in Places \ {"apply"}, b.back = "idle",
         Downgrade(t, w, M, b)
  PROVE  Lands(t, b)
<1> DEFINE z == [b EXCEPT !.at = "wake all", !.mask = M, !.back = b.at]
<1>1. z \in ThreadType /\ Core(z) = Core(b)
  BY Zenon DEF ThreadType, Core, Masks, Places, Waking
<1>2. th' = [th EXCEPT ![t] = b] \/ th' = [th EXCEPT ![t] = z]
  BY Zenon DEF Downgrade
<1> HIDE DEF z
<1> QED  BY <1>1, <1>2 DEF Lands

(* unlock_and_lock_shared                                                  *)
LEMMA UnlockAndLockSharedInv ==
  ASSUME Sizes, IInv, NEW t \in Users, NEW k \in {"inline", "less"},
         UnlockAndLockShared(t, k)
  PROVE  IInv'
<1> DEFINE w1 == [word EXCEPT !.prevDefer = FALSE, !.hasE = FALSE]
           w2 == ClearWaiters(w1, {"NotS", "E", "U", "S"})
           y  == [Away EXCEPT !.at = "S", !.token = k]
<1>1. /\ th \in [Users -> ThreadType] /\ word \in WordType
      /\ LockInv(word, slots, core)
      /\ th[t].at \in Places => core[t].at = th[t].at
  BY Zenon, Start
<1>2. /\ th[t].at = "E" /\ slots' = slots /\ word' = Count(w2, 1)
      /\ Downgrade(t, word', {"E", "U", "S"}, y)
  BY DEF UnlockAndLockShared, Downgrade
<1>3. ~word.begunE /\ ~word.hasU
  BY <1>1, <1>2 DEF LockInv, Solo, Places
<1>4. /\ w1 \in WordType /\ w1.s = word.s /\ w1.hasU = word.hasU
      /\ w1.mayDefer = word.mayDefer /\ ~w1.hasE
      /\ w1.begunE = word.begunE /\ ~w1.prevDefer
  BY Zenon, <1>1 DEF WordType
<1>5. PICK b \in ThreadType : /\ b = y /\ b.back = "idle"
                              /\ b.at \in Places \ {"apply"}
                              /\ Core(b).at = "S" /\ Flow(Core(b))
  BY Zenon, Ends DEF Tokens
<1> HIDE DEF w1
<1>6. /\ w2 \in WordType /\ KeepBits(w1, w2) /\ w2.s = w1.s
      /\ w2.mayDefer = w1.mayDefer /\ ~w2.waitNotS
  BY <1>4, ClearWaitersWord
<1> HIDE DEF w2
<1>7. /\ word' \in WordType /\ KeepBits(w2, word')
      /\ word'.s = (w2.s + 1) % Readers /\ word'.mayDefer = w2.mayDefer
      /\ word'.waitNotS = w2.waitNotS
  BY Zenon, <1>2, <1>6, Units, CountWord
<1>8. /\ word'.s = (word.s + 1) % Readers /\ word'.mayDefer = word.mayDefer
      /\ ~word'.hasE /\ ~word'.begunE /\ ~word'.prevDefer /\ ~word'.waitNotS
      /\ ~word'.hasU
  BY Zenon, <1>3, <1>4, <1>6, <1>7 DEF KeepBits
<1>9. PICK x \in ThreadType : th' = [th EXCEPT ![t] = x] /\ Core(x) = Core(b)
  <2> HIDE DEF y
  <2>1. PICK M \in Masks : Downgrade(t, word', M, b)
    BY <1>2, <1>5 DEF Masks
  <2>2. Lands(t, b)
    BY Zenon, <1>1, <1>5, <2>1, DowngradeMoves
  <2> QED  BY Zenon, <2>2 DEF Lands
<1>10. 1 \in Int /\ 1 = IF Core(b).at = "S" THEN 1 ELSE 0
  BY <1>5
<1> QED  BY Zenon, <1>2, <1>5, <1>7, <1>8, <1>9, <1>10, WriterLeaves

(* unlock_and_lock_upgrade                                                 *)
LEMMA UnlockAndLockUpgradeInv ==
  ASSUME Sizes, IInv, NEW t \in Users, UnlockAndLockUpgrade(t)
  PROVE  IInv'
<1> DEFINE w1 == [word EXCEPT !.prevDefer = FALSE, !.hasE = FALSE, !.hasU = TRUE]
           y  == [Away EXCEPT !.at = "U"]
<1>1. /\ th \in [Users -> ThreadType] /\ word \in WordType
      /\ LockInv(word, slots, core)
      /\ th[t].at \in Places => core[t].at = th[t].at
  BY Start
<1>2. /\ th[t].at = "E" /\ slots' = slots
      /\ word' = ClearWaiters(w1, {"NotS", "S"})
      /\ Downgrade(t, word', {"S"}, y)
  BY DEF UnlockAndLockUpgrade, Downgrade
<1>3. ~word.begunE
  BY <1>1, <1>2 DEF LockInv, Solo, Places
<1>4. /\ w1 \in WordType /\ w1.s = word.s /\ w1.hasU
      /\ w1.mayDefer = word.mayDefer /\ ~w1.hasE
      /\ w1.begunE = word.begunE /\ ~w1.prevDefer
  BY Zenon, <1>1 DEF WordType
<1>5. PICK b \in ThreadType : /\ b = y /\ b.back = "idle"
                              /\ b.at \in Places \ {"apply"}
                              /\ Core(b).at = "U" /\ Flow(Core(b))
  <2>1. "U" \in Places
    BY DEF Places
  <2>2. /\ y \in ThreadType /\ y.at = "U" /\ y.back = "idle" /\ y.seen = {}
        /\ y.moved = 0
    BY <2>1, AwayType DEF ThreadType
  <2>3. /\ Core(y).at = "U" /\ Core(y).back = "idle" /\ Core(y).seen = {}
        /\ Core(y).moved = 0
    BY Zenon, <2>1, <2>2, CoreFields
  <2>4. Flow(Core(y))
    BY <2>3 DEF Flow
  <2> QED  BY Zenon, <2>1, <2>2, <2>3, <2>4
<1> HIDE DEF w1
<1>6. /\ word' \in WordType /\ KeepBits(w1, word') /\ word'.s = w1.s
      /\ word'.mayDefer = w1.mayDefer /\ ~word'.waitNotS
  BY <1>2, <1>4, ClearWaitersWord
<1>7. /\ word'.mayDefer = word.mayDefer /\ word'.hasU
      /\ ~word'.hasE /\ ~word'.begunE /\ ~word'.prevDefer /\ ~word'.waitNotS
  BY <1>3, <1>4, <1>6 DEF KeepBits
<1>8. PICK x \in ThreadType : th' = [th EXCEPT ![t] = x] /\ Core(x) = Core(b)
  <2> HIDE DEF y
  <2>1. PICK M \in Masks : Downgrade(t, word', M, b)
    BY <1>2, <1>5 DEF Masks
  <2>2. Lands(t, b)
    BY Zenon, <1>1, <1>5, <2>1, DowngradeMoves
  <2> QED  BY Zenon, <2>2 DEF Lands
<1>9. /\ 0 \in Int /\ 0 = IF Core(b).at = "S" THEN 1 ELSE 0
      /\ word'.s = (word.s + 0) % Readers
  BY Zenon, <1>1, <1>4, <1>5, <1>6, SameCount
<1> QED  BY Zenon, <1>2, <1>5, <1>6, <1>7, <1>8, <1>9, WriterLeaves

(* lock_upgrade                                                            *)
LEMMA LockUpgradeImplInv ==
  ASSUME Sizes, IInv, NEW t \in Users, LockUpgradeImpl(t)
  PROVE  IInv'
<1>1. /\ th \in [Users -> ThreadType] /\ th[t] \in ThreadType
      /\ LockInv(word, slots, core) /\ word \in WordType /\ Flow(core[t])
      /\ core[t].seen = th[t].seen /\ core[t].moved = th[t].moved
      /\ th[t].at \in Places => core[t].at = th[t].at
                                /\ core[t].back = th[t].back
  BY Start
<1>2. /\ th[t].at = "upgrade" /\ ~HasSolo(word) /\ slots' = slots
      /\ word' = [word EXCEPT !.hasU = TRUE]
  BY DEF LockUpgradeImpl
<1>3. core[t].at = "upgrade" /\ core[t].back = th[t].back
  BY <1>1, <1>2 DEF Places
<1>4. PICK x \in ThreadType :
        /\ th' = [th EXCEPT ![t] = x] /\ x.at = "U" /\ x.back = th[t].back
        /\ x.seen = th[t].seen /\ x.moved = th[t].moved
  <2> DEFINE y == [th[t] EXCEPT !.at = "U"]
  <2>1. /\ y \in ThreadType /\ y.at = "U" /\ y.back = th[t].back
        /\ y.seen = th[t].seen /\ y.moved = th[t].moved
    BY Zenon, <1>1 DEF ThreadType, Places
  <2>2. th' = [th EXCEPT ![t] = y]
    BY <1>1 DEF LockUpgradeImpl, ThreadType
  <2> QED  BY Zenon, <2>1, <2>2
<1>5. th' \in [Users -> ThreadType] /\ Moves(core, t, Core(x), core')
  BY Zenon, <1>1, <1>4, OneMoves
<1>6. /\ Core(x).at = "U" /\ Core(x).back = core[t].back
      /\ Core(x).seen = core[t].seen /\ Core(x).moved = core[t].moved
  <2>1. "U" \in Places
    BY Zenon DEF Places
  <2> QED  BY <1>1, <1>3, <1>4, <2>1, CoreFields
<1>7. Flow(Core(x))
  BY Zenon, <1>1, <1>3, <1>6 DEF Flow
<1>8. /\ word' \in WordType /\ word'.s = word.s /\ word'.hasU
      /\ word'.hasE = word.hasE /\ word'.begunE = word.begunE
      /\ word'.mayDefer = word.mayDefer /\ word'.prevDefer = word.prevDefer
      /\ word'.waitNotS = word.waitNotS
  BY Zenon, <1>1, <1>2 DEF WordType
<1>9. /\ 0 \in Int /\ 0 = IF Core(x).at = "S" THEN 1 ELSE 0
      /\ word'.s = (word.s + 0) % Readers
  BY <1>1, <1>6, <1>8, SameCount
<1>10. LockInv(word', slots, core')
  BY Zenon, <1>1, <1>2, <1>3, <1>5, <1>6, <1>7, <1>8, <1>9, UpgradeStep
<1> QED  BY Zenon, <1>2, <1>5, <1>10 DEF IInv

(* An upgrader leaves, and wakes whom it has kept.                         *)
LEMMA UpgraderLeaves ==
  ASSUME Sizes, IInv, NEW t \in Users, th[t].at = "U",
         slots' = slots, word' \in WordType,
         NEW b \in ThreadType, Flow(Core(b)), Core(b).at \in {"idle", "S"},
         NEW x \in ThreadType, th' = [th EXCEPT ![t] = x], Core(x) = Core(b),
         NEW k \in Int, k = IF Core(b).at = "S" THEN 1 ELSE 0,
         word'.s = (word.s + k) % Readers, ~word'.hasU,
         word'.hasE = word.hasE, word'.begunE = word.begunE,
         word'.mayDefer = word.mayDefer, word'.prevDefer = word.prevDefer,
         word'.waitNotS = word.waitNotS
  PROVE  IInv'
<1>1. /\ th \in [Users -> ThreadType] /\ LockInv(word, slots, core)
      /\ th[t].at \in Places => core[t].at = th[t].at
  BY Zenon, Start
<1>2. core[t].at = "U"
  BY Zenon, <1>1 DEF Places
<1>3. th' \in [Users -> ThreadType] /\ Moves(core, t, Core(x), core')
  BY Zenon, <1>1, OneMoves
<1>4. word'.hasU <=> Core(x).at = "U"
  OBVIOUS
<1>5. LockInv(word', slots, core')
  BY Zenon, <1>1, <1>2, <1>3, <1>4, UpgradeStep
<1> QED  BY <1>3, <1>5 DEF IInv

(* unlock_upgrade                                                          *)
LEMMA UnlockUpgradeInv ==
  ASSUME Sizes, IInv, NEW t \in Users, UnlockUpgrade(t)
  PROVE  IInv'
<1>1. /\ th \in [Users -> ThreadType] /\ word \in WordType
      /\ th[t].at = "U" /\ slots' = slots
  BY Start DEF UnlockUpgrade
<1>2. /\ word' \in WordType /\ word'.s = word.s /\ ~word'.hasU
      /\ word'.hasE = word.hasE /\ word'.begunE = word.begunE
      /\ word'.mayDefer = word.mayDefer /\ word'.prevDefer = word.prevDefer
      /\ word'.waitNotS = word.waitNotS
  BY Zenon, <1>1 DEF UnlockUpgrade, WordType
<1>3. PICK M \in Masks : ThenWake(t, word', M, Away)
  BY DEF UnlockUpgrade, Masks
<1>4. PICK x \in ThreadType : th' = [th EXCEPT ![t] = x] /\ Core(x) = Core(Away)
  <2>1. /\ Away \in ThreadType /\ Away.at \in Places \ {"apply"}
        /\ Away.back = "idle"
    BY Zenon, AwayEnds
  <2>2. Lands(t, Away)
    BY Zenon, <1>1, <1>3, <2>1, WakeMoves
  <2> QED  BY Zenon, <2>2 DEF Lands
<1>5. /\ 0 \in Int /\ 0 = IF Core(Away).at = "S" THEN 1 ELSE 0
      /\ word'.s = (word.s + 0) % Readers
  BY Zenon, <1>1, <1>2, SameCount, AwayEnds
<1> QED  BY Zenon, <1>1, <1>2, <1>4, <1>5, AwayEnds, UpgraderLeaves

(* unlock_upgrade_and_lock_shared                                          *)
LEMMA UnlockUpgradeAndLockSharedInv ==
  ASSUME Sizes, IInv, NEW t \in Users, NEW k \in {"inline", "less"},
         UnlockUpgradeAndLockShared(t, k)
  PROVE  IInv'
<1> DEFINE w1 == [word EXCEPT !.hasU = FALSE]
           y  == [Away EXCEPT !.at = "S", !.token = k]
<1>1. /\ th \in [Users -> ThreadType] /\ word \in WordType
  BY Start
<1>2. /\ th[t].at = "U" /\ slots' = slots /\ word' = Count(w1, 1)
      /\ ThenWake(t, word', {"E", "U"}, y)
  BY DEF UnlockUpgradeAndLockShared
<1>3. /\ w1 \in WordType /\ w1.s = word.s /\ ~w1.hasU
      /\ w1.hasE = word.hasE /\ w1.begunE = word.begunE
      /\ w1.mayDefer = word.mayDefer /\ w1.prevDefer = word.prevDefer
      /\ w1.waitNotS = word.waitNotS
  BY Zenon, <1>1 DEF WordType
<1>4. PICK b \in ThreadType : /\ b = y /\ b.back = "idle"
                              /\ b.at \in Places \ {"apply"}
                              /\ Core(b).at = "S" /\ Flow(Core(b))
  BY Zenon, Ends DEF Tokens
<1> HIDE DEF w1
<1>5. /\ word' \in WordType /\ KeepBits(w1, word')
      /\ word'.s = (w1.s + 1) % Readers /\ word'.mayDefer = w1.mayDefer
      /\ word'.waitNotS = w1.waitNotS
  BY Zenon, <1>2, <1>3, Units, CountWord
<1>6. /\ word'.s = (word.s + 1) % Readers /\ word'.mayDefer = word.mayDefer
      /\ word'.hasE = word.hasE /\ word'.begunE = word.begunE
      /\ word'.prevDefer = word.prevDefer /\ word'.waitNotS = word.waitNotS
      /\ ~word'.hasU
  BY Zenon, <1>3, <1>5 DEF KeepBits
<1>7. PICK x \in ThreadType : th' = [th EXCEPT ![t] = x] /\ Core(x) = Core(b)
  <2> HIDE DEF y
  <2>1. PICK M \in Masks : ThenWake(t, word', M, b)
    BY Zenon, <1>2, <1>4 DEF Masks
  <2>2. Lands(t, b)
    BY Zenon, <1>1, <1>4, <2>1, WakeMoves
  <2> QED  BY Zenon, <2>2 DEF Lands
<1>8. 1 \in Int /\ 1 = IF Core(b).at = "S" THEN 1 ELSE 0
  BY <1>4
<1> QED  BY Zenon, <1>2, <1>4, <1>5, <1>6, <1>7, <1>8, UpgraderLeaves

(* lockExclusiveImpl                                                       *)
LEMMA LockExclusiveInv ==
  ASSUME Sizes, IInv, NEW t \in Users, LockExclusive(t)
  PROVE  IInv'
<1>1. /\ th \in [Users -> ThreadType] /\ th[t] \in ThreadType
      /\ LockInv(word, slots, core) /\ word \in WordType /\ Flow(core[t])
      /\ core[t].seen = th[t].seen /\ core[t].moved = th[t].moved
      /\ core[t].up = th[t].up
      /\ th[t].at \in Places => core[t].at = th[t].at
                                /\ core[t].back = th[t].back
  BY Start
<1>2. th[t].at = "lock" /\ ~Blocked(t, word) /\ slots' = slots
  BY DEF LockExclusive
<1>3. core[t].at = "lock" /\ (core[t].up \/ ~HasSolo(word))
  BY Zenon, <1>1, <1>2 DEF Places, Blocked
<1>4. ~word.hasE /\ ~word.begunE /\ ~word.waitNotS
  <2>1. core[t].up => word.hasU
    BY Zenon, <1>1, <1>3 DEF LockInv, Solo, Up
  <2>2. /\ word.hasE \/ word.begunE => ~word.hasU
        /\ word.waitNotS => word.hasE \/ word.begunE
    BY Zenon, <1>1 DEF LockInv, Solo
  <2> QED  BY Zenon, <1>3, <2>1, <2>2 DEF HasSolo
<1>5. PICK begun \in BOOLEAN :
        begun <=> ReaderPriority /\ (word.mayDefer \/ word.s # 0)
  BY Zenon
<1>6. PICK then \in {"E", "drain"} : then = "E" <=> word.s = 0 /\ ~begun
  OBVIOUS
<1>7. PICK p \in {"apply", "E", "drain"}, q \in {"idle", "E", "drain"},
           u \in BOOLEAN :
        /\ th' = [th EXCEPT ![t].at = p, ![t].back = q, ![t].up = u]
        /\ word.mayDefer => p = "apply" /\ q = then
        /\ ~word.mayDefer => p = then /\ q = "idle"
  <2>1. th[t].up \in BOOLEAN /\ word.mayDefer \in BOOLEAN
    BY <1>1 DEF ThreadType, WordType
  <2>2. (IF word.s = 0
             /\ ~(ReaderPriority /\ (word.mayDefer \/ word.s # 0))
           THEN "E" ELSE "drain") = then
    BY <1>5, <1>6
  <2>3. th' = [th EXCEPT ![t].at = IF word.mayDefer THEN "apply" ELSE then,
                         ![t].back = IF word.mayDefer THEN then ELSE "idle",
                         ![t].up = @ /\ (word.mayDefer \/ then = "drain")]
    BY Zenon, <2>2 DEF LockExclusive
  <2>4. PICK u \in BOOLEAN :
          u <=> th[t].up /\ (word.mayDefer \/ then = "drain")
    BY Zenon
  <2>5. th' = [th EXCEPT ![t].at = IF word.mayDefer THEN "apply" ELSE then,
                         ![t].back = IF word.mayDefer THEN then ELSE "idle",
                         ![t].up = u]
    BY Zenon, <1>1, <2>1, <2>3, <2>4 DEF ThreadType
  <2> QED  BY Zenon, <2>5
<1>8. PICK x \in ThreadType :
        /\ th' = [th EXCEPT ![t] = x] /\ x.at = p /\ x.back = q
        /\ x.seen = th[t].seen /\ x.moved = th[t].moved
  <2> DEFINE y == [th[t] EXCEPT !.at = p, !.back = q, !.up = u]
  <2>1. /\ y \in ThreadType /\ y.at = p /\ y.back = q
        /\ y.seen = th[t].seen /\ y.moved = th[t].moved
    BY Zenon, <1>1 DEF ThreadType, Places
  <2>2. th' = [th EXCEPT ![t] = y]
    BY Zenon, <1>1, <1>7 DEF ThreadType
  <2> QED  BY Zenon, <2>1, <2>2
<1>9. th' \in [Users -> ThreadType] /\ Moves(core, t, Core(x), core')
  BY Zenon, <1>1, <1>8, OneMoves
<1>10. /\ Core(x).at = p /\ Core(x).back = q
       /\ Core(x).seen = {} /\ Core(x).moved = 0
  <2>1. p \in Places
    BY Zenon DEF Places
  <2>2. core[t].seen = {} /\ core[t].moved = 0
    BY <1>1, <1>3 DEF Flow
  <2> QED  BY <1>1, <1>8, <2>1, <2>2, CoreFields
<1>11. Flow(Core(x))
  <2>1. Cardinality(Core(x).seen) = 0
    BY <1>10, FS_EmptySet
  <2> QED  BY <1>5, <1>6, <1>7, <1>10, <2>1 DEF Flow
<1>12. /\ word' \in WordType /\ word'.s = word.s /\ word'.hasE = ~begun
       /\ word'.begunE = begun /\ ~word'.hasU /\ ~word'.mayDefer
       /\ ~word'.waitNotS
  <2>1. PICK e, g, pd \in BOOLEAN :
          /\ e = ~begun /\ g = begun
          /\ word' = [word EXCEPT !.hasE = e, !.begunE = g, !.hasU = FALSE,
                                  !.mayDefer = FALSE, !.prevDefer = pd]
    <3>1. PICK e, g, pd \in BOOLEAN :
            /\ e = (word.hasE \/ ~begun) /\ g = (word.begunE \/ begun)
            /\ pd = (word.prevDefer \/ word.mayDefer)
      BY Zenon
    <3>2. e = ~begun /\ g = begun
      BY <1>4, <3>1
    <3>3. /\ e = (word.hasE \/ ~(ReaderPriority
                                  /\ (word.mayDefer \/ word.s # 0)))
          /\ g = (word.begunE \/ (ReaderPriority
                                  /\ (word.mayDefer \/ word.s # 0)))
      BY <1>5, <3>1
    <3>4. word' = [word EXCEPT !.hasE = e, !.begunE = g, !.hasU = FALSE,
                               !.mayDefer = FALSE, !.prevDefer = pd]
      BY Zenon, <1>1, <3>1, <3>3 DEF LockExclusive, WordType
    <3> QED  BY Zenon, <3>2, <3>4
  <2>2. word' \in WordType
    <3> DEFINE v == [word EXCEPT !.hasE = e, !.begunE = g, !.hasU = FALSE]
    <3>1. v \in WordType
      BY Zenon, <1>1 DEF WordType
    <3>2. word' = [v EXCEPT !.mayDefer = FALSE, !.prevDefer = pd]
      BY Zenon, <2>1
    <3> HIDE DEF v
    <3> QED  BY Zenon, <3>1, <3>2 DEF WordType
  <2>3. /\ word'.s = word.s /\ word'.hasE = e /\ word'.begunE = g
        /\ word'.hasU = FALSE /\ word'.mayDefer = FALSE
        /\ word'.waitNotS = word.waitNotS
    BY Zenon, <1>1, <2>1 DEF WordType
  <2> QED  BY Zenon, <1>4, <2>1, <2>2, <2>3
<1>13. /\ begun => ReaderPriority
       /\ Core(x).at = "E" => ~begun /\ word.s = 0
       /\ word.mayDefer => Core(x).at = "apply"
       /\ Core(x).at = "apply" => word.mayDefer
       /\ Core(x).back = "E" => word.s = 0
  BY <1>5, <1>6, <1>7, <1>10
<1>14. LockInv(word', slots, core')
  BY Zenon, <1>1, <1>3, <1>9, <1>10, <1>11, <1>12, <1>13, LockStep
<1> QED  BY Zenon, <1>2, <1>9, <1>14 DEF IInv

(* applyDeferredReaders: one slot,                                         *)
LEMMA ApplySlotInv ==
  ASSUME Sizes, IInv, NEW t \in Users, NEW j \in Table, ApplySlot(t, j)
  PROVE  IInv'
<1>1. /\ th \in [Users -> ThreadType] /\ th[t] \in ThreadType
      /\ LockInv(word, slots, core)
      /\ core[t].seen = th[t].seen /\ core[t].moved = th[t].moved
      /\ th[t].at \in Places => core[t].at = th[t].at
                                /\ core[t].back = th[t].back
  BY Start
<1>2. /\ th[t].at = "apply" /\ j \notin th[t].seen /\ word' = word
      /\ slots' = [slots EXCEPT ![j] = None]
  BY Zenon DEF ApplySlot
<1>3. core[t].at = "apply" /\ core[t].back = th[t].back
  BY Zenon, <1>1, <1>2 DEF Places
<1>4. PICK m \in Nat :
        m = IF slots[j] = None THEN th[t].moved ELSE th[t].moved + 1
  <2>1. th[t].moved \in Nat
    BY <1>1 DEF ThreadType
  <2> QED  BY <2>1
<1>5. PICK x \in ThreadType :
        /\ th' = [th EXCEPT ![t] = x] /\ x.at = "apply" /\ x.back = th[t].back
        /\ x.seen = th[t].seen \cup {j} /\ x.moved = m
  <2> DEFINE y == [th[t] EXCEPT !.seen = th[t].seen \cup {j}, !.moved = m]
  <2>1. /\ y \in ThreadType /\ y.at = "apply" /\ y.back = th[t].back
        /\ y.seen = th[t].seen \cup {j} /\ y.moved = m
    BY Zenon, <1>1, <1>2 DEF ThreadType
  <2>2. th' = [th EXCEPT ![t] = y]
    BY Zenon, <1>1, <1>4 DEF ApplySlot, ThreadType
  <2> QED  BY Zenon, <2>1, <2>2
<1>6. th' \in [Users -> ThreadType] /\ Moves(core, t, Core(x), core')
  BY Zenon, <1>1, <1>5, OneMoves
<1>7. /\ Core(x).at = "apply" /\ Core(x).back = core[t].back
      /\ Core(x).seen = core[t].seen \cup {j}
      /\ Core(x).moved = IF slots[j] = None THEN core[t].moved
                         ELSE core[t].moved + 1
  <2>1. "apply" \in Places
    BY DEF Places
  <2> QED  BY <1>1, <1>3, <1>4, <1>5, <2>1, CoreFields
<1>8. LockInv(word, slots', core')
  BY Zenon, <1>1, <1>2, <1>3, <1>6, <1>7, ApplyStep
<1> QED  BY Zenon, <1>2, <1>6, <1>8 DEF IInv

(* and all of them into the word.                                          *)
LEMMA ApplyDoneInv ==
  ASSUME Sizes, IInv, NEW t \in Users, ApplyDone(t)
  PROVE  IInv'
<1>1. /\ th \in [Users -> ThreadType] /\ th[t] \in ThreadType
      /\ LockInv(word, slots, core) /\ word \in WordType /\ Flow(core[t])
      /\ core[t].seen = th[t].seen /\ core[t].moved = th[t].moved
      /\ th[t].at \in Places => core[t].at = th[t].at
                                /\ core[t].back = th[t].back
  BY Start
<1>2. /\ th[t].at = "apply" /\ th[t].seen = Table /\ slots' = slots
      /\ word' = Count(word, th[t].moved)
  BY Zenon DEF ApplyDone
<1>3. /\ core[t].at = "apply" /\ core[t].back = th[t].back
      /\ th[t].back \in {"E", "drain"}
  BY Zenon, <1>1, <1>2 DEF Places, Flow
<1>4. PICK to \in {"E", "drain"} :
        to = IF th[t].moved = 0 THEN th[t].back
             ELSE IF word'.s = 0 /\ ~ReaderPriority THEN "E" ELSE "drain"
  BY Zenon, <1>3
<1>5. PICK u \in BOOLEAN : th' = [th EXCEPT ![t] = [Away EXCEPT !.at = to, !.up = u]]
  <2>1. PICK u \in BOOLEAN : u = (th[t].up /\ to = "drain")
    BY Zenon
  <2> QED  BY Zenon, <1>4, <2>1 DEF ApplyDone
<1>6. PICK x \in ThreadType :
        /\ th' = [th EXCEPT ![t] = x] /\ x.at = to /\ x.back = "idle"
        /\ x.seen = {} /\ x.moved = 0
  <2> DEFINE y == [Away EXCEPT !.at = to, !.up = u]
  <2>1. /\ y \in ThreadType /\ y.at = to /\ y.back = "idle"
        /\ y.seen = {} /\ y.moved = 0
    BY Zenon, AwayType DEF ThreadType, Places
  <2> QED  BY Zenon, <1>5, <2>1
<1>7. th' \in [Users -> ThreadType] /\ Moves(core, t, Core(x), core')
  BY Zenon, <1>1, <1>6, OneMoves
<1>8. /\ Core(x).at = to /\ Core(x).back = "idle" /\ Core(x).seen = {}
      /\ Core(x).moved = 0
  <2>1. to \in Places
    BY Zenon DEF Places
  <2> QED  BY Zenon, <1>6, <2>1, CoreFields
<1>9. Flow(Core(x))
  BY Zenon, <1>8 DEF Flow
<1>10. /\ word' \in WordType /\ KeepBits(word, word')
       /\ word'.s = (word.s + core[t].moved) % Readers
       /\ word'.mayDefer = word.mayDefer
  <2>1. th[t].moved \in Int
    BY <1>1 DEF ThreadType
  <2> QED  BY Zenon, <1>1, <1>2, <2>1, CountWord
<1>11. Core(x).at = "E" => \/ core[t].moved = 0 /\ core[t].back = "E"
                           \/ word'.s = 0 /\ ~ReaderPriority
  BY <1>1, <1>3, <1>4, <1>8
<1>12. LockInv(word', slots, core')
  BY Zenon, <1>1, <1>2, <1>3, <1>7, <1>8, <1>9, <1>10, <1>11, ApplyDoneStep
<1> QED  BY Zenon, <1>2, <1>7, <1>12 DEF IInv

(* No reader is left.                                                      *)
LEMMA DrainedInv ==
  ASSUME Sizes, IInv, NEW t \in Users, Drained(t)
  PROVE  IInv'
<1>1. /\ th \in [Users -> ThreadType] /\ LockInv(word, slots, core)
      /\ word \in WordType
      /\ th[t].at \in Places => core[t].at = th[t].at
  BY Zenon, Start
<1>2. /\ th[t].at = "drain" /\ word.s = 0 /\ slots' = slots
      /\ word' = [word EXCEPT !.begunE = FALSE, !.hasE = TRUE]
      /\ th' = [th EXCEPT ![t] = [Away EXCEPT !.at = "E"]]
  BY DEF Drained
<1>3. core[t].at = "drain"
  BY <1>1, <1>2 DEF Places
<1>4. PICK x \in ThreadType :
        /\ th' = [th EXCEPT ![t] = x] /\ x.at = "E" /\ x.back = "idle"
        /\ x.seen = {} /\ x.moved = 0
  <2> DEFINE y == [Away EXCEPT !.at = "E"]
  <2>1. /\ y \in ThreadType /\ y.at = "E" /\ y.back = "idle"
        /\ y.seen = {} /\ y.moved = 0
    BY AwayType DEF ThreadType, Places
  <2> QED  BY Zenon, <1>2, <2>1
<1>5. th' \in [Users -> ThreadType] /\ Moves(core, t, Core(x), core')
  BY Zenon, <1>1, <1>4, OneMoves
<1>6. /\ Core(x).at = "E" /\ Core(x).back = "idle" /\ Core(x).seen = {}
      /\ Core(x).moved = 0
  <2>1. "E" \in Places
    BY Zenon DEF Places
  <2> QED  BY Zenon, <1>4, <2>1, CoreFields
<1>7. Flow(Core(x))
  BY <1>6 DEF Flow
<1>8. /\ word' \in WordType /\ word'.s = word.s /\ word'.hasE /\ ~word'.begunE
      /\ word'.hasU = word.hasU /\ word'.mayDefer = word.mayDefer
  BY Zenon, <1>1, <1>2 DEF WordType
<1>9. LockInv(word', slots, core')
  BY Zenon, <1>1, <1>2, <1>3, <1>5, <1>6, <1>7, <1>8, DrainedStep
<1> QED  BY Zenon, <1>2, <1>5, <1>9 DEF IInv

-----------------------------------------------------------------------------
(* The invariant *)

LEMMA InitInv ==
  ASSUME Sizes, MutexInit
  PROVE  IInv
<1>1. /\ th \in [Users -> ThreadType]
      /\ \A t \in Users : th[t] = Away
  BY Zenon, AwayType DEF MutexInit
<1>2. core \in [Users -> CoreType] /\ \A t \in Users : core[t] = Core(Away)
  BY Zenon, <1>1, AwayType, CoreFields DEF core
<1>3. /\ word \in WordType /\ slots \in SlotType /\ word.s = 0
      /\ ~word.hasE /\ ~word.begunE /\ ~word.hasU /\ ~word.prevDefer
      /\ ~word.waitNotS
      /\ \A j \in Table : slots[j] = None
  <2>1. Readers \in Nat \ {0}
    BY Finite
  <2>2. word = Free /\ slots = [j \in Table |-> None]
    BY Zenon DEF MutexInit
  <2>3. Free \in WordType
    BY <2>1 DEF Free, WordType
  <2> QED  BY <2>2, <2>3 DEF Free, SlotType
<1>4. \A t \in Users : /\ core[t].at = "idle" /\ Flow(core[t])
                       /\ ~Wr(core[t]) /\ ~Up(core[t]) /\ ~Gives(core[t])
  BY <1>2, AwayEnds DEF Wr, Up, Gives
<1>5. Diff(slots, core) = 0
  <2>1. NC(core) = {} /\ NR(slots) = {}
    BY <1>3, <1>4 DEF NC, NR
  <2> QED  BY <2>1, FS_EmptySet DEF Diff
<1>6. 0 = Diff(slots, core) % Readers
  BY <1>5, Finite
<1>7. Counts(word, slots, core)
  BY Zenon, <1>3, <1>4, <1>6 DEF Counts
<1>8. Solo(word, core) /\ Owned(word, slots, core) /\ TokensHeld(slots, core)
  BY <1>3, <1>4 DEF Solo, Owned, TokensHeld, None
<1> QED  BY Zenon, <1>1, <1>2, <1>3, <1>4, <1>7, <1>8 DEF IInv, LockInv, Types

LEMMA NextInv ==
  ASSUME Sizes, IInv, [MutexNext]_mutexVars
  PROVE  IInv'
<1>1. CASE UNCHANGED mutexVars
  BY Zenon, <1>1
    DEF mutexVars, IInv, LockInv, Types, Solo, Owned, TokensHeld, Counts, core
<1>2. CASE MutexNext
  <2>1. PICK t \in Users :
          GoesOn(t) \/ Writes(t) \/ Upgrades(t) \/ Shares(t) \/ UnlockShared(t)
          \/ TimeOut(t) \/ Interrupted(t)
    BY Zenon, <1>2 DEF MutexNext
  <2>2. CASE GoesOn(t)
    <3>1. CASE Announce(t) \/ FutexWait(t) \/ WakeOne(t) \/ ClearBits(t)
               \/ WakeAll(t)
      BY Zenon, <3>1, AnnounceInv, SleepInv, WakeOneInv, ClearBitsInv, WakeAllInv
    <3>2. CASE LockExclusive(t) \/ ApplyDone(t) \/ Drained(t)
               \/ LockUpgradeImpl(t)
      BY Zenon, <3>2, LockExclusiveInv, ApplyDoneInv, DrainedInv, LockUpgradeImplInv
    <3>3. CASE LockInline(t) \/ TakeSlot(t) \/ CheckSlot(t)
               \/ ReleaseSlot(t) \/ SearchFailed(t) \/ UnlockSharedInline(t)
      BY Zenon, <3>3, LockInlineInv, TakeSlotInv, CheckSlotInv, ReleaseSlotInv,
         SearchFailedInv, UnlockSharedInlineInv
    <3>4. CASE \E j \in Table :
                 ApplySlot(t, j) \/ FindSlot(t, j) \/ SearchSlot(t, j)
      BY Zenon, <3>4, ApplySlotInv, FindSlotInv, SearchSlotInv
    <3> QED  BY Zenon, <2>2, <3>1, <3>2, <3>3, <3>4 DEF GoesOn
  <2>3. CASE Writes(t)
    BY Zenon, <2>3, EnterInv, UnlockInv, UnlockAndLockSharedInv DEF Writes
  <2>4. CASE Upgrades(t)
    BY Zenon, <2>4, EnterInv, UnlockUpgradeInv, UnlockInv, UnlockAndLockUpgradeInv,
       UnlockUpgradeAndLockSharedInv DEF Upgrades
  <2>5. CASE Shares(t)
    BY <2>5, LockSharedInv DEF Shares
  <2>6. CASE UnlockShared(t) \/ TimeOut(t) \/ Interrupted(t)
    BY Zenon, <2>6, UnlockSharedInv, TimeOutInv, SleepInv
  <2> QED  BY Zenon, <2>1, <2>2, <2>3, <2>4, <2>5, <2>6
<1> QED  BY Zenon, <1>1, <1>2

-----------------------------------------------------------------------------
(* What follows from it *)

(* A thread and its core.                                                  *)
LEMMA PlaceIsCore ==
  ASSUME IInv, NEW t \in Users
  PROVE  /\ Place(t) = core[t].at /\ core[t] \in CoreType
         /\ HoldsU(t) => Up(core[t])
         /\ th[t].at \in Places => core[t].at = th[t].at
         /\ th[t].at = "apply" <=> core[t].at = "apply"
         /\ core[t].moved = th[t].moved /\ th[t].at \in Places \cup Waking
<1>1. /\ th[t] \in ThreadType /\ core[t] = Core(th[t]) /\ core[t] \in CoreType
      /\ core[t].up = th[t].up /\ core[t].moved = th[t].moved
  BY Zenon, Start
<1>2. /\ th[t].at \in Places \cup Waking /\ th[t].back # "apply"
  BY Zenon, <1>1 DEF ThreadType
<1>3. /\ Place(t) = core[t].at
      /\ th[t].at \notin Waking => core[t].at = th[t].at
      /\ th[t].at \in Waking => core[t].at = th[t].back
  <2>1. Place(t) = IF th[t].at \in Waking THEN th[t].back ELSE th[t].at
    BY Zenon DEF Place, Waking
  <2>2. Core(th[t]).at = IF th[t].at \in Waking THEN th[t].back ELSE th[t].at
    BY DEF Core
  <2> QED  BY Zenon, <1>1, <2>1, <2>2
<1> QED  BY Zenon, <1>1, <1>2, <1>3 DEF HoldsU, Up, Places, Waking

LEMMA TypesHold ==
  ASSUME IInv
  PROVE  MutexTypeOK
<1>1. /\ word \in WordType /\ slots \in SlotType
  BY DEF IInv, LockInv, Types
<1>2. \A t \in Users : th[t].at \in Places \cup Waking
  BY PlaceIsCore
<1>3. word.s \in 0..(Readers - 1) /\ word.waitE \in 0..2
  BY <1>1 DEF WordType
<1>4. slots \in [Table -> {None, "token", "less"}]
  BY <1>1 DEF SlotType
<1> QED  BY Zenon, <1>2, <1>3, <1>4 DEF MutexTypeOK, Places, Waking

LEMMA Excludes ==
  ASSUME Sizes, IInv
  PROVE  Exclusion
<1> SUFFICES ASSUME NEW t \in Users, NEW v \in Users, t # v
             PROVE  /\ Place(t) = "E" => Place(v) \notin {"E", "S"} /\ ~HoldsU(v)
                    /\ ~(HoldsU(t) /\ HoldsU(v))
  BY DEF Exclusion
<1>1. /\ Place(t) = core[t].at /\ (HoldsU(t) => Up(core[t]))
      /\ Place(v) = core[v].at /\ (HoldsU(v) => Up(core[v]))
  BY Zenon, PlaceIsCore
<1>2. LockInv(word, slots, core) /\ Solo(word, core)
  BY Zenon DEF IInv, LockInv
<1>3. ~(Up(core[t]) /\ Up(core[v]))
  BY <1>2 DEF Solo
<1>4. ASSUME core[t].at = "E"
      PROVE  core[v].at \notin {"E", "S"} /\ ~Up(core[v])
  <2>1. core[v].at # "S"
    BY Zenon, <1>2, <1>4, NoneDecrements
  <2>2. core[v].at # "E"
    BY Zenon, <1>2, <1>4 DEF Solo, Wr
  <2>3. ~Up(core[v])
    BY Zenon, <1>2, <1>4 DEF Solo
  <2> QED  BY Zenon, <2>1, <2>2, <2>3
<1> QED  BY <1>1, <1>3, <1>4

LEMMA BalanceHolds ==
  ASSUME Sizes, IInv
  PROVE  Balanced
<1>1. /\ LockInv(word, slots, core) /\ Solo(word, core)
      /\ Counts(word, slots, core)
  BY Zenon DEF IInv, LockInv
<1>2. \A t \in Users : /\ Place(t) = core[t].at /\ th[t].moved = core[t].moved
                       /\ th[t].at = "apply" <=> core[t].at = "apply"
  BY Zenon, PlaceIsCore
<1>3. Counted = NC(core) /\ Recorded = NR(slots)
  BY Zenon, <1>2 DEF Counted, Recorded, NC, NR, Gives
<1> DEFINE c == Cardinality(NC(core))
           r == Cardinality(NR(slots))
<1>4. /\ c \in 0..(Readers - 1) /\ r \in Nat /\ Readers \in Nat \ {0}
      /\ Diff(slots, core) = c - r
  BY Finite DEF Diff
<1>5. Cardinality(Table) \in Nat
  BY Zenon, FS_CardinalityType DEF Sizes
<1> SUFFICES ASSUME TRUE
             PROVE  \E n \in 0..Cardinality(Table) :
                      /\ \A t \in Users : th[t].at = "apply" => th[t].moved = n
                      /\ (\A t \in Users : th[t].at # "apply") => n = 0
                      /\ (word.s + n + r) % Readers = c
  BY <1>3 DEF Balanced
<1> HIDE DEF c, r
<1>6. ASSUME NEW n \in Nat, word.s = ((c - r) - n) % Readers
      PROVE  (word.s + n + r) % Readers = c
  <2>1. word.s = (c - (n + r)) % Readers /\ word.s \in Int
    <3>1. (c - r) - n = c - (n + r)
      BY <1>4
    <3>2. word.s \in 0..(Readers - 1)
      BY <1>1 DEF LockInv, Types, WordType
    <3> QED  BY <1>4, <1>6, <3>1, <3>2
  <2>2. (word.s + (n + r)) % Readers = c % Readers
    <3>1. PICK m \in Int : m = n + r
      BY <1>4
    <3>2. c \in Int /\ word.s = (c - m) % Readers
      BY <1>4, <2>1, <3>1
    <3>3. (word.s + m) % Readers = c % Readers
      BY Zenon, <1>4, <3>2, CountBack
    <3> QED  BY Zenon, <3>1, <3>3
  <2>3. c % Readers = c
    BY <1>4
  <2>4. word.s + n + r = word.s + (n + r)
    BY <1>4, <2>1
  <2> QED  BY Zenon, <2>2, <2>3, <2>4
<1>7. CASE \A t \in Users : th[t].at # "apply"
  <2>1. word.s = (c - r) % Readers
    BY Zenon, <1>1, <1>2, <1>4, <1>7 DEF Counts
  <2>2. (c - r) - 0 = c - r
    BY <1>4
  <2>3. (word.s + 0 + r) % Readers = c
    BY Zenon, <1>6, <2>1, <2>2
  <2> QED  BY <1>5, <1>7, <2>3
<1>8. ASSUME NEW t \in Users, th[t].at = "apply"
      PROVE  \E n \in 0..Cardinality(Table) :
               /\ \A u \in Users : th[u].at = "apply" => th[u].moved = n
               /\ (\A u \in Users : th[u].at # "apply") => n = 0
               /\ (word.s + n + r) % Readers = c
  <2>1. /\ core[t].at = "apply" /\ th[t].moved = core[t].moved
        /\ core[t] \in CoreType
    BY Zenon, <1>2, <1>8, PlaceIsCore
  <2>2. /\ th[t].moved \in Nat /\ th[t].moved <= Cardinality(core[t].seen)
        /\ core[t].seen \in SUBSET Table
    BY Zenon, <1>1, <2>1 DEF LockInv, Flow, CoreType
  <2>3. Cardinality(core[t].seen) <= Cardinality(Table)
        /\ Cardinality(core[t].seen) \in Nat
    BY Zenon, <2>2, FS_Subset, FS_CardinalityType DEF Sizes
  <2>4. th[t].moved \in 0..Cardinality(Table)
    BY <1>5, <2>2, <2>3
  <2>5. \A u \in Users : th[u].at = "apply" => th[u].moved = th[t].moved
    BY Zenon, <1>1, <1>2, <2>1 DEF Solo, Wr
  <2>6. word.s = ((c - r) - th[t].moved) % Readers
    BY Zenon, <1>1, <1>4, <2>1 DEF Counts
  <2>7. (word.s + th[t].moved + r) % Readers = c
    BY Zenon, <1>6, <2>2, <2>6
  <2> QED  BY Zenon, <1>8, <2>4, <2>5, <2>7
<1> QED  BY Zenon, <1>7, <1>8

LEMMA AssertionsHold ==
  ASSUME Sizes, IInv
  PROVE  Asserted
<1>1. /\ LockInv(word, slots, core) /\ Solo(word, core)
      /\ Counts(word, slots, core) /\ TokensHeld(slots, core)
  BY Zenon DEF IInv, LockInv
<1>2. \A t \in Users : /\ th[t].at \in Places => core[t].at = th[t].at
                       /\ HoldsU(t) => Up(core[t])
  BY Zenon, PlaceIsCore
<1>3. ASSUME NEW t \in Users, th[t].at = "E"
      PROVE  word.hasE /\ word.s = 0 /\ ~word.mayDefer /\ ~word.begunE
             /\ ~word.hasU
  <2>1. core[t].at = "E"
    BY Zenon, <1>2, <1>3 DEF Places
  <2>2. /\ word.hasE /\ ~word.mayDefer /\ ~word.begunE /\ ~word.hasU
        /\ \A v \in Users : core[v].at # "apply"
    BY Zenon, <1>1, <2>1 DEF Solo, Wr
  <2>3. word.s = Diff(slots, core) % Readers /\ Diff(slots, core) = 0
    BY <1>1, <2>1, <2>2 DEF Counts
  <2>4. word.s = 0
    BY <2>3, Finite
  <2> QED  BY Zenon, <2>2, <2>4
<1>4. ASSUME NEW t \in Users, HoldsU(t)
      PROVE  word.hasU /\ ~word.hasE /\ ~word.begunE /\ ~word.waitNotS
  BY <1>1, <1>2, <1>4 DEF Solo
<1>5. ASSUME NEW t \in Users, th[t].at \in {"apply", "drain"}
      PROVE  (word.hasE \/ word.begunE) /\ ~word.hasU
  <2>1. Wr(core[t])
    BY <1>2, <1>5 DEF Places, Wr
  <2> QED  BY <1>1, <2>1 DEF Solo
<1>6. word.prevDefer => word.hasE \/ word.begunE
  BY <1>1 DEF Solo
<1>7. ASSUME NEW t \in Users, th[t].at = "decrement", word.s = 0,
             ~word.hasE, ~word.begunE, ~word.mayDefer
      PROVE  FALSE
  <2>1. core[t].at = "decrement" /\ Gives(core[t])
    BY <1>2, <1>7 DEF Places, Gives
  <2>2. \A v \in Users : core[v].at # "apply"
    BY <1>1, <1>7 DEF Solo, Wr
  <2>3. Diff(slots, core) \in 0..(Readers - 1) /\ Diff(slots, core) # 0
    BY <1>1, <1>7, <2>1, <2>2, NoReaders
  <2>4. 0 = Diff(slots, core) % Readers
    BY <1>1, <1>7, <2>2 DEF Counts
  <2> QED  BY <2>3, <2>4, Finite
<1>8. ASSUME \A t \in Users : th[t].at = "idle"
      PROVE  /\ ~HasSolo(word) /\ ~word.prevDefer
             /\ \A j \in Table : slots[j] # "token"
  <2>1. \A t \in Users : core[t].at = "idle"
    BY <1>2, <1>8 DEF Places
  <2>2. \A t \in Users : ~Wr(core[t]) /\ ~Up(core[t])
    BY <2>1 DEF Wr, Up
  <2>3. ~word.hasE /\ ~word.begunE /\ ~word.hasU /\ ~word.prevDefer
    BY <1>1, <2>2 DEF Solo
  <2>4. \A j \in Table : slots[j] # "token"
    BY <1>1, <2>1 DEF TokensHeld, HasToken
  <2> QED  BY <2>3, <2>4 DEF HasSolo
<1> QED  BY Zenon, <1>3, <1>4, <1>5, <1>6, <1>7, <1>8 DEF Asserted

(* The shared mutex is safe, with either priority, for every finite set of *)
(* threads and of slots: a writer is alone, also against readers recorded  *)
(* outside the word; one thread at most holds an upgrade lock; every       *)
(* shared lock is recorded once, in the word, in a slot or with the writer *)
(* that moves it; and the assertions of the code hold.                     *)
THEOREM MutexSoundHolds == MutexSpec => []MutexSound
<1>1. MutexInit => IInv
  BY SizesAssumption, InitInv
<1>2. IInv /\ [MutexNext]_mutexVars => IInv'
  BY SizesAssumption, NextInv
<1>3. IInv => MutexSound
  BY SizesAssumption, TypesHold, Excludes, BalanceHolds, AssertionsHold
     DEF MutexSound
<1> QED  BY <1>1, <1>2, <1>3, PTL DEF MutexSpec

-----------------------------------------------------------------------------
(* No wakeup is lost: the invariant, of a word w and threads f *)

Waiting == {"lock", "drain", "shared", "upgrade"}

(* What x waits for has not happened in the word w.                        *)
Stuck(x, w) ==
  \/ x.at \in {"lock", "upgrade"} /\ HasSolo(w)
  \/ x.at = "drain" /\ w.s # 0
  \/ x.at = "shared" /\ w.hasE

(* The wait bit of x is one of M,                                          *)
Covers(M, x) ==
  \/ x.at = "lock" /\ "E" \in M
  \/ x.at = "drain" /\ "NotS" \in M
  \/ x.at = "shared" /\ "S" \in M
  \/ x.at = "upgrade" /\ "U" \in M

(* is set in the word w.                                                   *)
Marked(x, w) == Covers(Waiters(w), x)

(* A thread sleeps only where it waits, and on a word that says so.        *)
Rests(x) ==
  /\ x.sleep # "no" => x.at \in Waiting /\ (x.at = "lock" => ~x.up)
  /\ x.sleep = "about" =>
       \E w \in WordType : x.old = <<w>> /\ Stuck(x, w) /\ Marked(x, w)

(* Thread y will wake x, if its wait bit is still set, or is a writer that *)
(* goes first and will.                                                    *)
Stirs(y, x) ==
  \/ y.at = "clear" /\ Covers(y.mask, x)
  \/ x.at = "lock" /\ (y.at = "wake one" \/ (y.at = "lock" /\ y.sleep = "no"))

Owed(x, w, f) ==
  \/ \E v \in Users : f[v].at = "wake all" /\ Covers(f[v].mask, x)
  \/ Marked(x, w) /\ (Stuck(x, w) \/ \E v \in Users : Stirs(f[v], x))

WakeInv(w, f) ==
  \A t \in Users : Rests(f[t]) /\ (f[t].sleep = "asleep" => Owed(f[t], w, f))

(* Thread t goes to x, and the others stay where they are.                 *)
Goes(f, t, x, g) == g[t] = x /\ \A v \in Users : v # t => g[v] = f[v]

(* What x waits for, and its wait bit, do not change.                      *)
Lasts(x, w, w2) ==
  (Marked(x, w) => Marked(x, w2)) /\ (Stuck(x, w) => Stuck(x, w2))

-----------------------------------------------------------------------------
(* Steps that wake nobody, and releases *)

LEMMA CalmStep ==
  ASSUME NEW w, NEW w2, NEW f, NEW g, NEW t \in Users, NEW x, Goes(f, t, x, g),
         WakeInv(w, f), f[t].at \notin Waking,
         Rests(x), x.sleep = "asleep" => Owed(x, w2, g),
         f[t].at = "lock" /\ f[t].sleep = "no" => HasSolo(w2),
         \A v \in Users : v # t /\ f[v].sleep = "asleep" => Lasts(f[v], w, w2)
  PROVE  WakeInv(w2, g)
<1>1. g[t] = x /\ \A v \in Users : v # t => g[v] = f[v]
  BY DEF Goes
<1>3. SUFFICES ASSUME NEW v \in Users, v # t, f[v].sleep = "asleep"
               PROVE  Owed(f[v], w2, g)
  BY Zenon, <1>1 DEF WakeInv
<1>4. Owed(f[v], w, f) /\ Lasts(f[v], w, w2)
  BY Zenon, <1>3 DEF WakeInv
<1>5. CASE \E y \in Users : f[y].at = "wake all" /\ Covers(f[y].mask, f[v])
  BY Zenon, <1>1, <1>5 DEF Owed, Waking
<1>6. CASE Marked(f[v], w) /\ Stuck(f[v], w)
  BY Zenon, <1>4, <1>6 DEF Owed, Lasts
<1>7. CASE Marked(f[v], w) /\ \E y \in Users : Stirs(f[y], f[v])
  <2>1. PICK y \in Users : Stirs(f[y], f[v])
    BY <1>7
  <2>2. CASE y = t
    <3>1. f[v].at = "lock" /\ HasSolo(w2)
      BY Zenon, <2>1, <2>2 DEF Stirs, Waking
    <3> QED  BY Zenon, <1>4, <1>7, <3>1 DEF Owed, Lasts, Stuck
  <2> QED  BY Zenon, <1>1, <1>4, <1>7, <2>1, <2>2 DEF Owed, Lasts
<1> QED  BY Zenon, <1>4, <1>5, <1>6, <1>7 DEF Owed

(* What the bits and the masks are.                                        *)
LEMMA WaitersAre ==
  ASSUME NEW w \in WordType
  PROVE  /\ "NotS" \in Waiters(w) <=> w.waitNotS
         /\ "E" \in Waiters(w) <=> w.waitE > 0
         /\ "U" \in Waiters(w) <=> w.waitU
         /\ "S" \in Waiters(w) <=> w.waitS
         /\ Waiters(w) \subseteq {"NotS", "E", "U", "S"}
BY Zenon DEF Waiters, WordType

LEMMA MaskIs ==
  ASSUME NEW t \in Users
  PROVE  /\ \A M \in Masks : WaitMask(t) \in M <=> Covers(M, th[t])
         /\ \A w : Blocked(t, w) <=>
              Stuck(th[t], w) /\ (th[t].at = "lock" => ~th[t].up)
         /\ WaitMask(t) # None <=> th[t].at \in Waiting
BY DEF WaitMask, Covers, Masks, None, Blocked, Stuck, Waiting

(* A found waiter has its waker.                                           *)
LEMMA Found ==
  ASSUME NEW W, NEW M, NEW x, Covers(W, x), Covers(M, x)
  PROVE  W \cap M # {} /\ (W \cap M = {"E"} => x.at = "lock")
BY DEF Covers

LEMMA ReleaseStep ==
  ASSUME th \in [Users -> ThreadType], NEW w, NEW w2, WakeInv(w, th),
         NEW t \in Users, th[t].at \notin Waking \cup {"lock"},
         NEW M \in Masks, NEW b \in ThreadType, b.sleep = "no",
         ThenWake(t, w2, M, b),
         \A v \in Users : v # t /\ th[v].sleep = "asleep" =>
           /\ Marked(th[v], w) => Marked(th[v], w2)
           /\ Stuck(th[v], w) => Stuck(th[v], w2) \/ Covers(M, th[v])
  PROVE  WakeInv(w2, th')
<1> DEFINE W == Waiters(w2)
<1>1. PICK x : /\ x.sleep = "no"
               /\ W \cap M # {} => \/ x.at = "clear" /\ x.mask = M
                                   \/ x.at = "wake one" /\ W \cap M = {"E"}
               /\ th' = [th EXCEPT ![t] = x]
  <2> DEFINE p == IF W \cap M = {"E"} /\ w2.waitE = 2 THEN "wake one" ELSE "clear"
             y == [b EXCEPT !.mask = {}]
             z == [b EXCEPT !.at = p, !.mask = M, !.back = b.at]
  <2>1. th' = [th EXCEPT ![t] = IF W \cap M = {} THEN y ELSE z]
    BY Zenon DEF ThenWake
  <2>2. /\ p = "clear" \/ (p = "wake one" /\ W \cap M = {"E"})
        /\ y.sleep = "no" /\ z.sleep = "no" /\ z.at = p /\ z.mask = M
    BY DEF ThreadType
  <2> HIDE DEF y, z, p
  <2> QED  BY Zenon, <2>1, <2>2
<1>2. th'[t] = x /\ \A v \in Users : v # t => th'[v] = th[v]
  BY Zenon, <1>1
<1>3. Rests(x)
  BY Zenon, <1>1 DEF Rests
<1>4. SUFFICES ASSUME NEW v \in Users, v # t, th[v].sleep = "asleep"
               PROVE  Owed(th[v], w2, th')
  BY Zenon, <1>1, <1>2, <1>3 DEF WakeInv
<1>5. /\ Owed(th[v], w, th)
      /\ Marked(th[v], w) => Marked(th[v], w2)
      /\ Stuck(th[v], w) => Stuck(th[v], w2) \/ Covers(M, th[v])
  BY Zenon, <1>4 DEF WakeInv
<1>6. CASE \E y \in Users : th[y].at = "wake all" /\ Covers(th[y].mask, th[v])
  BY Zenon, <1>2, <1>6 DEF Owed, Waking
<1>7. CASE Marked(th[v], w) /\ Stuck(th[v], w)
  <2>1. CASE Covers(M, th[v])
    <3>1. W \cap M # {} /\ (W \cap M = {"E"} => th[v].at = "lock")
      BY Zenon, <1>5, <1>7, <2>1, Found DEF Marked
    <3>2. Stirs(x, th[v])
      BY Zenon, <1>1, <2>1, <3>1 DEF Stirs
    <3> QED  BY Zenon, <1>2, <1>5, <1>7, <3>2 DEF Owed
  <2> QED  BY Zenon, <1>5, <1>7, <2>1 DEF Owed
<1>8. CASE Marked(th[v], w) /\ \E y \in Users : Stirs(th[y], th[v])
  <2>1. PICK y \in Users : Stirs(th[y], th[v])
    BY <1>8
  <2>2. y # t
    BY Zenon, <2>1 DEF Stirs, Waking
  <2> QED  BY Zenon, <1>2, <1>5, <1>8, <2>1, <2>2 DEF Owed
<1> QED  BY Zenon, <1>5, <1>6, <1>7, <1>8 DEF Owed

(* A downgrade clears the bits of those it wakes.                          *)
LEMMA DowngradeStep ==
  ASSUME th \in [Users -> ThreadType], NEW w2, WakeInv(word, th),
         NEW t \in Users, NEW M \in Masks, NEW b \in ThreadType,
         b.sleep = "no", Downgrade(t, w2, M, b),
         \A v \in Users : v # t /\ th[v].sleep = "asleep" =>
           Covers(M, th[v]) \/ Lasts(th[v], word, w2)
  PROVE  WakeInv(w2, th')
<1> DEFINE W == Waiters(word)
<1>1. PICK x : /\ x.sleep = "no" /\ th[t].at = "E"
               /\ W \cap M # {} => x.at = "wake all" /\ x.mask = M
               /\ th' = [th EXCEPT ![t] = x]
  <2> DEFINE z == [b EXCEPT !.at = "wake all", !.mask = M, !.back = b.at]
  <2>1. th' = [th EXCEPT ![t] = IF W \cap M = {} THEN b ELSE z]
    BY Zenon DEF Downgrade
  <2>2. z.sleep = "no" /\ z.at = "wake all" /\ z.mask = M
    BY DEF ThreadType
  <2>3. th[t].at = "E"
    BY Zenon DEF Downgrade
  <2> HIDE DEF z
  <2> QED  BY Zenon, <2>1, <2>2, <2>3
<1>2. th'[t] = x /\ \A v \in Users : v # t => th'[v] = th[v]
  BY Zenon, <1>1
<1>3. Rests(x)
  BY Zenon, <1>1 DEF Rests
<1>4. SUFFICES ASSUME NEW v \in Users, v # t, th[v].sleep = "asleep"
               PROVE  Owed(th[v], w2, th')
  BY Zenon, <1>1, <1>2, <1>3 DEF WakeInv
<1>5. Owed(th[v], word, th) /\ (Covers(M, th[v]) \/ Lasts(th[v], word, w2))
  BY Zenon, <1>4 DEF WakeInv
<1>6. CASE \E y \in Users : th[y].at = "wake all" /\ Covers(th[y].mask, th[v])
  BY Zenon, <1>1, <1>2, <1>6 DEF Owed
<1>7. CASE Marked(th[v], word) /\ Covers(M, th[v])
  <2>1. W \cap M # {}
    BY Zenon, <1>7, Found DEF Marked
  <2> QED  BY Zenon, <1>1, <1>2, <1>7, <2>1 DEF Owed
<1>8. CASE Marked(th[v], word) /\ Lasts(th[v], word, w2)
  <2>1. CASE Stuck(th[v], word)
    BY Zenon, <1>8, <2>1 DEF Owed, Lasts
  <2>2. CASE \E y \in Users : Stirs(th[y], th[v])
    <3>1. PICK y \in Users : Stirs(th[y], th[v])
      BY <2>2
    <3>2. y # t
      BY Zenon, <1>1, <3>1 DEF Stirs
    <3> QED  BY Zenon, <1>2, <1>8, <3>1, <3>2 DEF Owed, Lasts
  <2> QED  BY Zenon, <1>4, <1>5, <1>6, <1>8, <2>1, <2>2 DEF Owed
<1> QED  BY Zenon, <1>5, <1>6, <1>7, <1>8 DEF Owed

-----------------------------------------------------------------------------
(* Actions that wake nobody *)

(* Thread t is not asleep afterwards, and was not about to wake another.   *)
Calm(t) ==
  /\ Goes(th, t, th'[t], th') /\ th'[t].sleep = "no" /\ th[t].at \notin Waking
  /\ th[t].at = "lock" /\ th[t].sleep = "no" => HasSolo(word')

LEMMA AwaySleep ==
  /\ Away.sleep = "no"
  /\ \A t \in Users : GoBack(t).sleep = "no"
  /\ \A p, k : [Away EXCEPT !.at = p, !.token = k].sleep = "no"
  /\ \A p : [Away EXCEPT !.at = p].sleep = "no"
  /\ \A p, k : [Away EXCEPT !.at = p, !.up = k].sleep = "no"
BY DEF Away, GoBack

Stays(t) ==
  Goes(th, t, th'[t], th') /\ th'[t].sleep \in {"no", th[t].sleep}

LEMMA CalmAction ==
  ASSUME IInv, WakeInv(word, th), NEW t \in Users,
         \/ Lock(t) \/ UnlockUpgradeAndLock(t) \/ LockUpgrade(t)
         \/ \E k \in {"token", "less"} : LockShared(t, k)
         \/ UnlockShared(t) \/ TakeSlot(t) \/ CheckSlot(t) \/ ReleaseSlot(t)
         \/ \E j \in Table : SearchSlot(t, j) \/ ApplySlot(t, j)
         \/ SearchFailed(t) \/ Interrupted(t)
         \/ TimeOut(t) /\ th[t].at # "drain"
  PROVE  Calm(t) /\ word' = word
<1>1. th \in [Users -> ThreadType] /\ Rests(th[t])
  BY Zenon DEF IInv, WakeInv
<1>2. ASSUME Stays(t), word' = word,
             th[t].at \in {"idle", "U", "S", "slot", "check", "release",
                          "search", "apply"}
      PROVE  Calm(t) /\ word' = word
  <2>1. th[t].at \notin Waiting \cup Waking /\ th[t].at # "lock"
    BY Zenon, <1>2 DEF Waiting, Waking
  <2> QED  BY Zenon, <1>1, <1>2, <2>1 DEF Rests, Calm, Stays
<1>3. CASE Lock(t) \/ UnlockUpgradeAndLock(t) \/ LockUpgrade(t)
  <2>1. Stays(t)
    BY <1>1, <1>3
      DEF Lock, UnlockUpgradeAndLock, LockUpgrade, Enter, Stays, Goes, ThreadType
  <2> QED  BY Zenon, <1>2, <1>3, <2>1
             DEF Lock, UnlockUpgradeAndLock, LockUpgrade, Enter
<1>4. CASE \E k \in {"token", "less"} : LockShared(t, k)
  <2>1. Stays(t)
    BY <1>1, <1>4 DEF LockShared, Stays, Goes, ThreadType
  <2> QED  BY Zenon, <1>2, <1>4, <2>1 DEF LockShared
<1>5. CASE UnlockShared(t)
  <2>1. Stays(t)
    BY <1>1, <1>5 DEF UnlockShared, Stays, Goes, ThreadType
  <2> QED  BY Zenon, <1>2, <1>5, <2>1 DEF UnlockShared
<1>6. CASE TakeSlot(t)
  <2>1. Stays(t)
    BY <1>1, <1>6 DEF TakeSlot, Stays, Goes, ThreadType
  <2> QED  BY Zenon, <1>2, <1>6, <2>1 DEF TakeSlot
<1>7. CASE CheckSlot(t)
  <2>1. Stays(t)
    BY <1>1, <1>7 DEF CheckSlot, Stays, Goes, ThreadType
  <2> QED  BY Zenon, <1>2, <1>7, <2>1 DEF CheckSlot
<1>8. CASE ReleaseSlot(t)
  <2>1. Stays(t)
    BY <1>1, <1>8, AwaySleep DEF ReleaseSlot, Stays, Goes, ThreadType
  <2> QED  BY Zenon, <1>2, <1>8, <2>1 DEF ReleaseSlot
<1>9. CASE \E j \in Table : SearchSlot(t, j)
  <2>1. Stays(t)
    BY <1>1, <1>9, AwaySleep DEF SearchSlot, Stays, Goes, ThreadType
  <2> QED  BY Zenon, <1>2, <1>9, <2>1 DEF SearchSlot
<1>10. CASE \E j \in Table : ApplySlot(t, j)
  <2>1. Stays(t)
    <3>1. PICK a, b : th' = [th EXCEPT ![t].seen = a, ![t].moved = b]
      BY Zenon, <1>10 DEF ApplySlot
    <3> QED  BY <1>1, <3>1 DEF Stays, Goes, ThreadType
  <2> QED  BY Zenon, <1>2, <1>10, <2>1 DEF ApplySlot
<1>11. CASE SearchFailed(t)
  <2>1. Stays(t)
    BY <1>1, <1>11 DEF SearchFailed, Stays, Goes, ThreadType
  <2> QED  BY Zenon, <1>2, <1>11, <2>1 DEF SearchFailed
<1>12. CASE Interrupted(t)
  BY Zenon, <1>1, <1>12
    DEF Interrupted, Calm, Goes, Rests, Waiting, Waking, ThreadType
<1>13. CASE TimeOut(t) /\ th[t].at # "drain"
  <2>1. /\ th' = [th EXCEPT ![t] = Away] /\ word' = word
        /\ th[t].at \in Waiting
        /\ th[t].sleep = "no" => Stuck(th[t], word)
    BY Zenon, <1>13, MaskIs DEF TimeOut, Ready
  <2>2. th[t].at = "lock" /\ th[t].sleep = "no" => HasSolo(word)
    BY Zenon, <2>1 DEF Stuck
  <2>3. th[t].at \notin Waking
    BY Zenon, <2>1 DEF Waiting, Waking
  <2> QED  BY Zenon, <1>1, <2>1, <2>2, <2>3, AwaySleep DEF Calm, Goes
<1> QED  BY Zenon, <1>3, <1>4, <1>5, <1>6, <1>7, <1>8, <1>9, <1>10, <1>11,
            <1>12, <1>13

(* A step that keeps what the others wait for.                             *)
LEMMA LastsWord ==
  ASSUME NEW w \in WordType, NEW w2 \in WordType, NEW x,
         HasSolo(w) => HasSolo(w2), w.hasE => w2.hasE,
         x.at = "drain" /\ w.s # 0 => w2.s # 0,
         w2.waitNotS = w.waitNotS, w2.waitE = w.waitE, w2.waitU = w.waitU,
         w2.waitS = w.waitS
  PROVE  Lasts(x, w, w2)
<1>1. Marked(x, w) => Marked(x, w2)
  BY WaitersAre DEF Marked, Covers
<1>2. Stuck(x, w) => Stuck(x, w2)
  BY Zenon DEF Stuck
<1> QED  BY Zenon, <1>1, <1>2 DEF Lasts

(* Beside a writer, or an upgrader, no other thread drains.                *)
LEMMA NoDrain ==
  ASSUME IInv, NEW t \in Users, th[t].at \in {"apply", "drain", "E", "U"}
  PROVE  /\ \A v \in Users : v # t => th[v].at # "drain"
         /\ th[t].at # "U" => ~word.hasU
         /\ th[t].at = "U" => word.hasU /\ ~word.hasE /\ ~word.begunE
<1>1. /\ \A v \in Users : th[v].at \in Places => core[v].at = th[v].at
      /\ Solo(word, core)
  BY Zenon, Start DEF LockInv
<1>2. /\ core[t].at = th[t].at
      /\ \A v \in Users : th[v].at = "drain" => core[v].at = "drain"
  BY Zenon, <1>1 DEF Places
<1>3. CASE th[t].at = "U"
  <2>1. Up(core[t])
    BY Zenon, <1>2, <1>3 DEF Up
  <2>2. word.hasU /\ ~word.hasE /\ ~word.begunE
    BY Zenon, <1>1, <2>1 DEF Solo
  <2>3. \A v \in Users : ~Wr(core[v])
    BY Zenon, <1>1, <2>2 DEF Solo
  <2> QED  BY <1>2, <1>3, <2>2, <2>3 DEF Wr
<1>4. CASE th[t].at # "U"
  <2>1. Wr(core[t])
    BY <1>2, <1>4 DEF Wr
  <2>2. ~word.hasU
    BY Zenon, <1>1, <2>1 DEF Solo
  <2>3. \A v \in Users : v # t => ~Wr(core[v])
    BY Zenon, <1>1, <2>1 DEF Solo
  <2> QED  BY <1>2, <1>4, <2>2, <2>3 DEF Wr
<1> QED  BY Zenon, <1>3, <1>4

(* A writer that drains reads the number of readers off the word.          *)
LEMMA DrainCount ==
  ASSUME Sizes, NEW w, NEW sl, NEW c, LockInv(w, sl, c), NEW t \in Users,
         c[t].at = "drain"
  PROVE  w.s = Diff(sl, c) /\ Diff(sl, c) >= 0
<1>1. Solo(w, c) /\ Owned(w, sl, c) /\ Counts(w, sl, c) /\ Types(w, sl, c)
  BY Zenon DEF LockInv
<1>2. Wr(c[t]) /\ \A v \in Users : Wr(c[v]) => v = t
  BY Zenon, <1>1 DEF Wr, Solo
<1>3. ~w.mayDefer
  BY Zenon, <1>1, <1>2 DEF Solo
<1>4. \A v \in Users : c[v].at # "apply"
  BY <1>2 DEF Wr
<1>5. /\ \A j \in Table : sl[j] # None => \E y \in Users : Owns(c[y], sl[j], j)
      /\ sl \in SlotType /\ c \in [Users -> CoreType]
  BY Zenon, <1>1, <1>3, <1>4 DEF Owned, Types
<1>6. Diff(sl, c) >= 0 /\ Diff(sl, c) \in Int /\ Diff(sl, c) < Readers
  BY Zenon, <1>5, Owners, Finite
<1>7. w.s = Diff(sl, c) % Readers
  BY Zenon, <1>1, <1>4 DEF Counts
<1> QED  BY <1>6, <1>7, Finite

(* A reader more leaves some.                                              *)
LEMMA MoreReaders ==
  ASSUME Sizes, IInv, IInv', NEW t \in Users, LockInline(t),
         NEW v \in Users, v # t, th[v].at = "drain"
  PROVE  word'.s # 0
<1>1. /\ th \in [Users -> ThreadType] /\ th' \in [Users -> ThreadType]
      /\ LockInv(word, slots, core) /\ LockInv(word', slots', core')
  BY Zenon DEF IInv
<1>2. /\ th[t].at = "shared" /\ th'[t].at = "S" /\ th'[v] = th[v]
      /\ slots' = slots /\ \A y \in Users : y # t => th'[y] = th[y]
  BY <1>1 DEF LockInline, ThreadType
<1>3. /\ core[t].at = "shared" /\ core'[t].at = "S"
      /\ core[v].at = "drain" /\ core'[v].at = "drain"
      /\ \A y \in Users : y # t => core'[y] = core[y]
  BY Zenon, <1>2 DEF core, Core, Waking
<1>4. NC(core') = NC(core) \cup {t} /\ t \notin NC(core)
  BY <1>3 DEF NC, Gives
<1>5. Cardinality(NC(core')) = Cardinality(NC(core)) + 1
  BY Zenon, SizesAssumption, <1>4, Finite, FS_AddElement
<1>6. Diff(slots, core') = Diff(slots, core) + 1
  BY <1>5, Finite DEF Diff
<1>7. Diff(slots, core) >= 0
  BY Zenon, <1>1, <1>3, DrainCount
<1>8. word'.s = Diff(slots, core')
  BY Zenon, <1>1, <1>2, <1>3, DrainCount
<1> QED  BY <1>6, <1>7, <1>8, Finite

LEMMA CalmWord ==
  ASSUME Sizes, IInv, IInv', WakeInv(word, th), NEW t \in Users,
         \/ LockExclusive(t) \/ ApplyDone(t) \/ Drained(t) \/ LockUpgradeImpl(t)
         \/ LockInline(t) \/ \E j \in Table : FindSlot(t, j)
  PROVE  Calm(t) /\ \A v \in Users : v # t => Lasts(th[v], word, word')
<1>1. /\ th \in [Users -> ThreadType] /\ Rests(th[t])
      /\ word \in WordType /\ word' \in WordType
  BY Zenon DEF IInv, WakeInv, LockInv, Types
<1>2. ASSUME Stays(t), th[t].sleep = "no", HasSolo(word) => HasSolo(word'),
             word.hasE => word'.hasE,
             th[t].at \in {"lock", "apply", "drain", "upgrade", "shared"},
             th[t].at = "lock" => HasSolo(word'),
             \A v \in Users : v # t /\ th[v].at = "drain" /\ word.s # 0
                                => word'.s # 0,
             word'.waitNotS = word.waitNotS, word'.waitE = word.waitE,
             word'.waitU = word.waitU, word'.waitS = word.waitS
      PROVE  Calm(t) /\ \A v \in Users : v # t => Lasts(th[v], word, word')
  <2>1. \A v \in Users : v # t => Lasts(th[v], word, word')
    BY Zenon, <1>1, <1>2, LastsWord
  <2>2. th[t].at \notin Waking
    BY Zenon, <1>2 DEF Waking
  <2> QED  BY Zenon, <1>2, <2>1, <2>2 DEF Calm, Stays
<1>3. CASE LockExclusive(t)
  <2>1. PICK p, q, u : th' = [th EXCEPT ![t].at = p, ![t].back = q, ![t].up = u]
    BY Zenon, <1>3 DEF LockExclusive
  <2>2. Stays(t)
    BY <1>1, <2>1 DEF Stays, Goes, ThreadType
  <2>3. th[t].at = "lock" /\ th[t].sleep = "no"
    BY Zenon, <1>3 DEF LockExclusive, Ready
  <2>4. PICK e \in BOOLEAN, g \in BOOLEAN, d \in BOOLEAN :
          /\ word' = [word EXCEPT !.hasE = e, !.begunE = g, !.hasU = FALSE,
                                  !.mayDefer = FALSE, !.prevDefer = d]
          /\ (e \/ g) /\ (word.hasE => e)
    <3> DEFINE b == ReaderPriority /\ (word.mayDefer \/ word.s # 0)
    <3>1. word' = [word EXCEPT !.hasE = word.hasE \/ ~b,
                               !.begunE = word.begunE \/ b,
                               !.hasU = FALSE, !.mayDefer = FALSE,
                               !.prevDefer = word.prevDefer \/ word.mayDefer]
      BY Zenon, <1>3 DEF LockExclusive
    <3> HIDE DEF b
    <3> QED  BY Zenon, <3>1
  <2>5. /\ HasSolo(word') /\ (word.hasE => word'.hasE) /\ word'.s = word.s
        /\ word'.waitNotS = word.waitNotS /\ word'.waitE = word.waitE
        /\ word'.waitU = word.waitU /\ word'.waitS = word.waitS
    BY <1>1, <2>4 DEF WordType, HasSolo
  <2> QED  BY Zenon, <1>2, <2>2, <2>3, <2>5
<1>4. CASE ApplyDone(t)
  <2>1. PICK p, u : th' = [th EXCEPT ![t] = [Away EXCEPT !.at = p, !.up = u]]
    BY Zenon, <1>4 DEF ApplyDone
  <2>2. Stays(t)
    BY Zenon, <1>1, <2>1, AwaySleep DEF Stays, Goes
  <2>3. th[t].at = "apply" /\ word' = Count(word, th[t].moved)
    BY Zenon, <1>4 DEF ApplyDone
  <2>4. th[t].sleep = "no"
    BY <1>1, <2>3 DEF Rests, Waiting
  <2>5. \A v \in Users : v # t => th[v].at # "drain"
    BY Zenon, <2>3, NoDrain
  <2>6. PICK n : word' = [word EXCEPT !.s = n]
    BY Zenon, <2>3 DEF Count
  <2>7. /\ HasSolo(word') = HasSolo(word) /\ word'.hasE = word.hasE
        /\ word'.waitNotS = word.waitNotS /\ word'.waitE = word.waitE
        /\ word'.waitU = word.waitU /\ word'.waitS = word.waitS
    BY <1>1, <2>6 DEF WordType, HasSolo
  <2> QED  BY Zenon, <1>2, <2>2, <2>3, <2>4, <2>5, <2>7
<1>5. CASE Drained(t)
  <2>1. /\ th[t].at = "drain" /\ th[t].sleep = "no" /\ word.s = 0
        /\ word' = [word EXCEPT !.begunE = FALSE, !.hasE = TRUE]
        /\ th' = [th EXCEPT ![t] = [Away EXCEPT !.at = "E"]]
    BY Zenon, <1>5 DEF Drained, Ready
  <2>2. Stays(t)
    BY Zenon, <1>1, <2>1, AwaySleep DEF Stays, Goes
  <2>3. /\ HasSolo(word') /\ word'.hasE
        /\ word'.waitNotS = word.waitNotS /\ word'.waitE = word.waitE
        /\ word'.waitU = word.waitU /\ word'.waitS = word.waitS
    BY <1>1, <2>1 DEF WordType, HasSolo
  <2> QED  BY Zenon, <1>2, <2>1, <2>2, <2>3
<1>6. CASE LockUpgradeImpl(t)
  <2>1. /\ th[t].at = "upgrade" /\ th[t].sleep = "no"
        /\ word' = [word EXCEPT !.hasU = TRUE]
        /\ th' = [th EXCEPT ![t].at = "U"]
    BY Zenon, <1>6 DEF LockUpgradeImpl, Ready
  <2>2. Stays(t)
    BY <1>1, <2>1 DEF Stays, Goes, ThreadType
  <2>3. /\ HasSolo(word') /\ word'.hasE = word.hasE /\ word'.s = word.s
        /\ word'.waitNotS = word.waitNotS /\ word'.waitE = word.waitE
        /\ word'.waitU = word.waitU /\ word'.waitS = word.waitS
    BY <1>1, <2>1 DEF WordType, HasSolo
  <2> QED  BY Zenon, <1>2, <2>1, <2>2, <2>3
<1>7. CASE LockInline(t)
  <2>1. PICK k : th' = [th EXCEPT ![t].at = "S", ![t].token = k]
    BY Zenon, <1>7 DEF LockInline
  <2>2. Stays(t)
    BY <1>1, <2>1 DEF Stays, Goes, ThreadType
  <2>3. /\ th[t].at = "shared" /\ th[t].sleep = "no"
        /\ word' = Count(word, 1)
    BY Zenon, <1>7 DEF LockInline, Ready
  <2>4. PICK n : word' = [word EXCEPT !.s = n]
    BY Zenon, <2>3 DEF Count
  <2>5. /\ HasSolo(word') = HasSolo(word) /\ word'.hasE = word.hasE
        /\ word'.waitNotS = word.waitNotS /\ word'.waitE = word.waitE
        /\ word'.waitU = word.waitU /\ word'.waitS = word.waitS
    BY <1>1, <2>4 DEF WordType, HasSolo
  <2>6. \A v \in Users : v # t /\ th[v].at = "drain" => word'.s # 0
    BY Zenon, <1>7, MoreReaders
  <2> QED  BY Zenon, <1>2, <2>2, <2>3, <2>5, <2>6
<1>8. CASE \E j \in Table : FindSlot(t, j)
  <2>1. PICK j : th' = [th EXCEPT ![t].at = "slot", ![t].slot = j]
    BY Zenon, <1>8 DEF FindSlot
  <2>2. Stays(t)
    BY <1>1, <2>1 DEF Stays, Goes, ThreadType
  <2>3. /\ th[t].at = "shared" /\ th[t].sleep = "no"
        /\ word' = [word EXCEPT !.mayDefer = TRUE]
    BY Zenon, <1>8 DEF FindSlot, Ready
  <2>4. /\ HasSolo(word') = HasSolo(word) /\ word'.hasE = word.hasE
        /\ word'.s = word.s
        /\ word'.waitNotS = word.waitNotS /\ word'.waitE = word.waitE
        /\ word'.waitU = word.waitU /\ word'.waitS = word.waitS
    BY <1>1, <2>3 DEF WordType, HasSolo
  <2> QED  BY Zenon, <1>2, <2>2, <2>3, <2>4
<1> QED  BY Zenon, <1>3, <1>4, <1>5, <1>6, <1>7, <1>8

(* So the invariant is kept by all of them.                                *)
LEMMA CalmInv ==
  ASSUME WakeInv(word, th), NEW t \in Users, Calm(t),
         \A v \in Users : v # t => Lasts(th[v], word, word')
  PROVE  WakeInv(word', th')
BY Zenon, CalmStep DEF Calm, Rests

-----------------------------------------------------------------------------
(* Releases *)

LEMMA SharesNext ==
  ASSUME NEW k \in {"inline", "less"}
  PROVE  /\ [Away EXCEPT !.at = "S", !.token = k] \in ThreadType
         /\ [Away EXCEPT !.at = "S", !.token = k].sleep = "no"
BY Zenon, AwayType, AwaySleep DEF ThreadType, Places, Tokens

LEMMA ReleaseInv ==
  ASSUME Sizes, IInv, IInv', WakeInv(word, th), NEW t \in Users,
         \/ Unlock(t) \/ UnlockUpgrade(t)
         \/ TimeOut(t) /\ th[t].at = "drain"
         \/ \E k \in {"inline", "less"} : UnlockUpgradeAndLockShared(t, k)
  PROVE  WakeInv(word', th')
<1>1. /\ th \in [Users -> ThreadType] /\ \A v \in Users : Rests(th[v])
      /\ word \in WordType /\ word' \in WordType
  BY Zenon DEF IInv, WakeInv, LockInv, Types
<1>2. ASSUME NEW M \in {{"E", "U", "S"}, {"E", "U"}}, NEW b \in ThreadType,
             b.sleep = "no", ThenWake(t, word', M, b),
             th[t].at \in {"drain", "E", "U"},
             M = {"E", "U"} => word'.hasE = word.hasE,
             word'.waitE = word.waitE, word'.waitU = word.waitU,
             word'.waitS = word.waitS
      PROVE  WakeInv(word', th')
  <2>1. th[t].at \notin Waking \cup {"lock"} /\ M \in Masks
    BY Zenon, <1>2 DEF Waking, Masks
  <2>2. ASSUME NEW v \in Users, v # t, th[v].sleep = "asleep"
        PROVE  /\ Marked(th[v], word) => Marked(th[v], word')
               /\ Stuck(th[v], word) => Stuck(th[v], word') \/ Covers(M, th[v])
    <3>1. th[v].at \in {"lock", "shared", "upgrade"}
      BY Zenon, <1>1, <1>2, <2>2, NoDrain DEF Rests, Waiting
    <3>2. Marked(th[v], word) => Marked(th[v], word')
      BY <1>1, <1>2, <3>1, WaitersAre DEF Marked, Covers
    <3>3. Stuck(th[v], word) => Stuck(th[v], word') \/ Covers(M, th[v])
      BY <1>2, <3>1 DEF Stuck, Covers
    <3> QED  BY <3>2, <3>3
  <2> QED  BY Zenon, <1>1, <1>2, <2>1, <2>2, ReleaseStep
<1>3. CASE Unlock(t)
  <2>1. /\ word' = [word EXCEPT !.waitNotS = FALSE, !.prevDefer = FALSE,
                                !.hasE = FALSE]
        /\ ThenWake(t, word', {"E", "U", "S"}, Away) /\ th[t].at = "E"
    BY Zenon, <1>3 DEF Unlock
  <2>2. /\ word'.waitE = word.waitE /\ word'.waitU = word.waitU
        /\ word'.waitS = word.waitS
    BY <1>1, <2>1 DEF WordType
  <2>3. {"E", "U", "S"} # {"E", "U"}
    OBVIOUS
  <2> QED  BY Zenon, <1>2, <2>1, <2>2, <2>3, AwaySleep, AwayType
<1>4. CASE TimeOut(t) /\ th[t].at = "drain"
  <2>1. /\ word' = [word EXCEPT !.prevDefer = FALSE, !.hasE = FALSE,
                                !.begunE = FALSE, !.waitNotS = FALSE]
        /\ ThenWake(t, word', {"E", "U", "S"}, Away)
    BY Zenon, <1>4 DEF TimeOut
  <2>2. /\ word'.waitE = word.waitE /\ word'.waitU = word.waitU
        /\ word'.waitS = word.waitS
    BY <1>1, <2>1 DEF WordType
  <2>3. {"E", "U", "S"} # {"E", "U"}
    OBVIOUS
  <2> QED  BY Zenon, <1>2, <1>4, <2>1, <2>2, <2>3, AwaySleep, AwayType
<1>5. CASE UnlockUpgrade(t)
  <2>1. /\ word' = [word EXCEPT !.hasU = FALSE]
        /\ ThenWake(t, word', {"E", "U"}, Away) /\ th[t].at = "U"
    BY Zenon, <1>5 DEF UnlockUpgrade
  <2>2. /\ word'.waitE = word.waitE /\ word'.waitU = word.waitU
        /\ word'.waitS = word.waitS /\ word'.hasE = word.hasE
    BY <1>1, <2>1 DEF WordType
  <2> QED  BY Zenon, <1>2, <2>1, <2>2, AwaySleep, AwayType
<1>6. CASE \E k \in {"inline", "less"} : UnlockUpgradeAndLockShared(t, k)
  <2>1. PICK k \in {"inline", "less"} :
          /\ word' = Count([word EXCEPT !.hasU = FALSE], 1)
          /\ ThenWake(t, word', {"E", "U"},
                      [Away EXCEPT !.at = "S", !.token = k])
          /\ th[t].at = "U"
    BY Zenon, <1>6 DEF UnlockUpgradeAndLockShared
  <2>2. PICK n : word' = [[word EXCEPT !.hasU = FALSE] EXCEPT !.s = n]
    BY Zenon, <2>1 DEF Count
  <2>3. /\ word'.waitE = word.waitE /\ word'.waitU = word.waitU
        /\ word'.waitS = word.waitS /\ word'.hasE = word.hasE
    BY <1>1, <2>2 DEF WordType
  <2>4. PICK b \in ThreadType : b.sleep = "no" /\ ThenWake(t, word', {"E", "U"}, b)
    BY Zenon, <2>1, SharesNext
  <2> QED  BY Zenon, <1>2, <2>1, <2>3, <2>4
<1> QED  BY Zenon, <1>3, <1>4, <1>5, <1>6

(* The last reader wakes the writer that drains.                           *)
LEMMA LastReaderInv ==
  ASSUME Sizes, IInv, IInv', WakeInv(word, th), NEW t \in Users,
         UnlockSharedInline(t)
  PROVE  WakeInv(word', th')
<1>1. /\ th \in [Users -> ThreadType] /\ \A v \in Users : Rests(th[v])
      /\ word \in WordType /\ word' \in WordType
  BY Zenon DEF IInv, WakeInv, LockInv, Types
<1>2. PICK M \in Masks : /\ ThenWake(t, word', M, GoBack(t))
                         /\ word'.s = 0 => "NotS" \in M
  BY Zenon DEF UnlockSharedInline, Masks
<1>3. th[t].at = "decrement" /\ word' = Count(word, -1)
  BY Zenon DEF UnlockSharedInline
<1>4. th[t].at \notin Waking \cup {"lock"}
  BY <1>3 DEF Waking
<1>5. GoBack(t) \in ThreadType /\ GoBack(t).sleep = "no"
  BY Zenon, <1>3, GoBackCore, AwaySleep
<1>6. PICK n : word' = [word EXCEPT !.s = n]
  BY Zenon, <1>3 DEF Count
<1>7. /\ HasSolo(word') = HasSolo(word) /\ word'.hasE = word.hasE
      /\ word'.waitNotS = word.waitNotS /\ word'.waitE = word.waitE
      /\ word'.waitU = word.waitU /\ word'.waitS = word.waitS
  BY <1>1, <1>6 DEF WordType, HasSolo
<1>8. \A x : Marked(x, word) => Marked(x, word')
  BY <1>1, <1>7, WaitersAre DEF Marked, Covers
<1>9. \A x : Stuck(x, word) => Stuck(x, word') \/ Covers(M, x)
  BY Zenon, <1>2, <1>7 DEF Stuck, Covers
<1> QED  BY Zenon, <1>1, <1>2, <1>4, <1>5, <1>8, <1>9, ReleaseStep

LEMMA DowngradeInv ==
  ASSUME Sizes, IInv, IInv', WakeInv(word, th), NEW t \in Users,
         \/ UnlockAndLockUpgrade(t)
         \/ \E k \in {"inline", "less"} : UnlockAndLockShared(t, k)
  PROVE  WakeInv(word', th')
<1>1. /\ th \in [Users -> ThreadType] /\ \A v \in Users : Rests(th[v])
      /\ word \in WordType /\ word' \in WordType
  BY Zenon DEF IInv, WakeInv, LockInv, Types
<1>2. th[t].at = "E"
  BY Zenon DEF UnlockAndLockUpgrade, UnlockAndLockShared, Downgrade
<1>3. \A v \in Users : v # t /\ th[v].sleep = "asleep"
                         => th[v].at \in {"lock", "shared", "upgrade"}
  BY Zenon, <1>1, <1>2, NoDrain DEF Rests, Waiting
<1>4. CASE UnlockAndLockUpgrade(t)
  <2> DEFINE w1 == [word EXCEPT !.prevDefer = FALSE, !.hasE = FALSE,
                                !.hasU = TRUE]
             b  == [Away EXCEPT !.at = "U"]
  <2>1. /\ Downgrade(t, word', {"S"}, b)
        /\ word' = ClearWaiters(w1, {"NotS", "S"})
    BY Zenon, <1>4 DEF UnlockAndLockUpgrade, Downgrade
  <2>2. w1 \in WordType /\ w1.hasU /\ w1.waitE = word.waitE /\ w1.waitU = word.waitU
    BY Zenon, <1>1 DEF WordType
  <2>3. b \in ThreadType /\ b.sleep = "no"
    BY AwayType, AwaySleep DEF ThreadType, Places
  <2> HIDE DEF w1, b
  <2>4. HasSolo(word') /\ word'.waitE = word.waitE /\ word'.waitU = word.waitU
    BY <2>1, <2>2 DEF ClearWaiters, WordType, HasSolo
  <2>5. \A v \in Users : v # t /\ th[v].sleep = "asleep" =>
          Covers({"S"}, th[v]) \/ Lasts(th[v], word, word')
    <3>1. ASSUME NEW x, x.at = "lock" \/ x.at = "upgrade"
          PROVE  Lasts(x, word, word')
      <4>1. Marked(x, word) => Marked(x, word')
        BY <1>1, <2>4, <3>1, WaitersAre DEF Marked, Covers
      <4>2. Stuck(x, word')
        BY Zenon, <2>4, <3>1 DEF Stuck
      <4> QED  BY Zenon, <4>1, <4>2 DEF Lasts
    <3>2. ASSUME NEW x, x.at = "shared"
          PROVE  Covers({"S"}, x)
      BY Zenon, <3>2 DEF Covers
    <3>3. ASSUME NEW v \in Users, v # t, th[v].sleep = "asleep"
          PROVE  Covers({"S"}, th[v]) \/ Lasts(th[v], word, word')
      <4>1. \/ th[v].at = "shared"
            \/ th[v].at = "lock" \/ th[v].at = "upgrade"
        BY Zenon, <1>3, <3>3
      <4>2. CASE th[v].at = "shared"
        BY Zenon, <3>2, <4>2
      <4>3. CASE th[v].at = "lock" \/ th[v].at = "upgrade"
        BY Zenon, <3>1, <4>3
      <4> QED  BY Zenon, <4>1, <4>2, <4>3
    <3> QED  BY Zenon, <3>3
  <2>6. {"S"} \in Masks
    BY Zenon DEF Masks
  <2> QED  BY Zenon, <1>1, <2>1, <2>3, <2>5, <2>6, DowngradeStep
<1>5. CASE \E k \in {"inline", "less"} : UnlockAndLockShared(t, k)
  <2>1. PICK k \in {"inline", "less"} :
          Downgrade(t, word', {"E", "U", "S"},
                    [Away EXCEPT !.at = "S", !.token = k])
    BY Zenon, <1>5 DEF UnlockAndLockShared, Downgrade
  <2>2. PICK b \in ThreadType :
          b.sleep = "no" /\ Downgrade(t, word', {"E", "U", "S"}, b)
    BY Zenon, <2>1, SharesNext
  <2>3. \A v \in Users : v # t /\ th[v].sleep = "asleep" =>
          Covers({"E", "U", "S"}, th[v])
    BY Zenon, <1>3 DEF Covers
  <2>4. {"E", "U", "S"} \in Masks
    BY DEF Masks
  <2> QED  BY Zenon, <1>1, <2>2, <2>3, <2>4, DowngradeStep
<1> QED  BY Zenon, <1>4, <1>5

-----------------------------------------------------------------------------
(* Sleeping and waking *)

(* Marking a waiter keeps the rest of the word.                            *)
LEMMA SetMark ==
  ASSUME NEW w \in WordType, NEW m \in {"NotS", "E", "U", "S"}, NEW w2,
         w2 = SetWaiter(w, m)
  PROVE  /\ HasSolo(w2) = HasSolo(w) /\ w2.hasE = w.hasE /\ w2.s = w.s
         /\ Waiters(w) \cup {m} \subseteq Waiters(w2)
<1>1. CASE m = "NotS"
  BY Zenon, <1>1 DEF SetWaiter, Waiters, WordType, HasSolo
<1>2. CASE m = "E"
  <2>1. PICK e \in {1, 2} : w2 = [w EXCEPT !.waitE = e]
    BY <1>2 DEF SetWaiter
  <2>2. /\ w2 \in WordType /\ w2.waitE = e /\ w2.waitNotS = w.waitNotS
        /\ w2.waitU = w.waitU /\ w2.waitS = w.waitS /\ w2.hasE = w.hasE
        /\ w2.begunE = w.begunE /\ w2.hasU = w.hasU /\ w2.s = w.s
    BY <2>1 DEF WordType
  <2>3. "E" \in Waiters(w2)
    BY <2>2, WaitersAre
  <2>4. \A k \in {"NotS", "U", "S"} : k \in Waiters(w) => k \in Waiters(w2)
    BY Zenon, <2>2, WaitersAre
  <2>5. Waiters(w) \cup {m} \subseteq Waiters(w2)
    BY <1>2, <2>3, <2>4, WaitersAre
  <2> QED  BY Zenon, <2>2, <2>5 DEF HasSolo
<1>3. CASE m = "U"
  BY Zenon, <1>3 DEF SetWaiter, Waiters, WordType, HasSolo
<1>4. CASE m = "S"
  BY Zenon, <1>4 DEF SetWaiter, Waiters, WordType, HasSolo
<1> QED  BY Zenon, <1>1, <1>2, <1>3, <1>4

LEMMA AnnounceWake ==
  ASSUME IInv, IInv', WakeInv(word, th), NEW t \in Users, Announce(t)
  PROVE  WakeInv(word', th')
<1> DEFINE m == WaitMask(t)
<1>1. /\ th \in [Users -> ThreadType] /\ Rests(th[t])
      /\ word \in WordType /\ word' \in WordType
  BY Zenon DEF IInv, WakeInv, LockInv, Types
<1>2. /\ word' = SetWaiter(word, m)
      /\ th' = [th EXCEPT ![t].sleep = "about", ![t].old = <<word'>>]
      /\ Blocked(t, word)
  BY Zenon DEF Announce
<1>3. Stuck(th[t], word) /\ (th[t].at = "lock" => ~th[t].up)
  BY Zenon, <1>2, MaskIs
<1>4. th[t].at \in Waiting
  BY <1>3 DEF Stuck, Waiting
<1>5. Covers({m}, th[t]) /\ m \in {"NotS", "E", "U", "S"}
  BY <1>4 DEF WaitMask, Covers, Waiting
<1> HIDE DEF m
<1>6. /\ HasSolo(word') = HasSolo(word) /\ word'.hasE = word.hasE
      /\ word'.s = word.s /\ Waiters(word) \cup {m} \subseteq Waiters(word')
  BY Zenon, <1>1, <1>2, <1>5, SetMark
<1>7. \A x : Lasts(x, word, word')
  BY Zenon, <1>6 DEF Lasts, Marked, Covers, Stuck
<1>8. /\ Goes(th, t, th'[t], th') /\ th'[t].sleep = "about"
      /\ th'[t].old = <<word'>> /\ th'[t].at = th[t].at /\ th'[t].up = th[t].up
  BY <1>1, <1>2 DEF Goes, ThreadType
<1>9. Stuck(th'[t], word') /\ Marked(th'[t], word')
  <2>1. Stuck(th[t], word') /\ Marked(th[t], word')
    BY Zenon, <1>3, <1>5, <1>6, <1>7 DEF Lasts, Marked, Covers
  <2> QED  BY Zenon, <1>8, <2>1 DEF Stuck, Marked, Covers
<1>10. Rests(th'[t])
  BY Zenon, <1>1, <1>3, <1>4, <1>8, <1>9 DEF Rests
<1>11. th[t].at \notin Waking /\ (th[t].at = "lock" => HasSolo(word'))
  BY Zenon, <1>3, <1>4, <1>6 DEF Waiting, Waking, Stuck
<1>12. th'[t].sleep # "asleep"
  BY <1>8
<1> QED  BY Zenon, <1>7, <1>8, <1>10, <1>11, <1>12, CalmStep

(* Nothing has happened to the word since the thread was marked in it, or  *)
(* it does not sleep.                                                      *)
LEMMA FutexWaitWake ==
  ASSUME IInv, WakeInv(word, th), NEW t \in Users, FutexWait(t)
  PROVE  WakeInv(word', th')
<1>1. th \in [Users -> ThreadType] /\ Rests(th[t])
  BY Zenon DEF IInv, WakeInv
<1>2. PICK s \in {"no", "asleep"} :
        /\ th' = [th EXCEPT ![t].sleep = s, ![t].old = <<>>]
        /\ s = "asleep" => <<word>> = th[t].old
        /\ th[t].sleep = "about" /\ word' = word
  BY Zenon DEF FutexWait
<1>3. /\ Goes(th, t, th'[t], th') /\ th'[t].sleep = s
      /\ th'[t].at = th[t].at /\ th'[t].up = th[t].up
  BY <1>1, <1>2 DEF Goes, ThreadType
<1>4. PICK w \in WordType :
        th[t].old = <<w>> /\ Stuck(th[t], w) /\ Marked(th[t], w)
  BY Zenon, <1>1, <1>2 DEF Rests
<1>5. s = "asleep" => w = word
  BY <1>2, <1>4
<1>6. th[t].at \in Waiting /\ (th[t].at = "lock" => ~th[t].up)
  BY <1>1, <1>2 DEF Rests
<1>7. s = "asleep" => Owed(th'[t], word, th')
  <2>1. s = "asleep" => Stuck(th[t], word) /\ Marked(th[t], word)
    BY Zenon, <1>4, <1>5
  <2>2. s = "asleep" => Stuck(th'[t], word) /\ Marked(th'[t], word)
    BY Zenon, <1>3, <2>1 DEF Stuck, Marked, Covers
  <2> QED  BY Zenon, <2>2 DEF Owed
<1>8. Rests(th'[t])
  BY <1>2, <1>3, <1>6 DEF Rests
<1>9. th[t].at \notin Waking /\ th[t].sleep # "no"
  BY Zenon, <1>2, <1>6 DEF Waiting, Waking
<1>10. \A x : Lasts(x, word, word')
  BY Zenon, <1>2 DEF Lasts
<1> QED  BY Zenon, <1>2, <1>3, <1>7, <1>8, <1>9, <1>10, CalmStep

LEMMA WakeOneWake ==
  ASSUME IInv, WakeInv(word, th), NEW t \in Users, WakeOne(t)
  PROVE  WakeInv(word', th')
<1>1. /\ th \in [Users -> ThreadType] /\ \A v \in Users : Rests(th[v])
      /\ \A v \in Users : th[v].sleep = "asleep" => Owed(th[v], word, th)
  BY Zenon DEF IInv, WakeInv
<1>2. th[t].at = "wake one" /\ word' = word
  BY Zenon DEF WakeOne
<1>3. th[t].sleep = "no"
  BY Zenon, <1>1, <1>2 DEF Rests, Waiting
<1>4. \A v \in Asleep({"E"}) : v \in Users /\ th[v].at = "lock"
                               /\ th[v].sleep = "asleep"
  <2>1. {"E"} \in Masks
    BY Zenon DEF Masks
  <2>2. \A v \in Users : WaitMask(v) \in {"E"} => Covers({"E"}, th[v])
    BY Zenon, <2>1, MaskIs
  <2> QED  BY <2>2 DEF Asleep, Covers
<1>5. CASE \E v \in Asleep({"E"}) :
             th' = [th EXCEPT ![v].sleep = "no", ![t] = Woken(t)]
  <2>1. PICK u \in Asleep({"E"}) :
               th' = [th EXCEPT ![u].sleep = "no", ![t] = Woken(t)]
    BY Zenon, <1>5
  <2>2. u \in Users /\ th[u].at = "lock" /\ th[u].sleep = "asleep" /\ u # t
    BY Zenon, <1>2, <1>4
  <2>3. /\ th'[u].sleep = "no" /\ th'[u].at = "lock"
        /\ \A v \in Users \ {u, t} : th'[v] = th[v]
    BY <1>1, <2>1, <2>2 DEF ThreadType
  <2>4. th'[t].sleep = "no"
    BY <1>1, <1>3, <2>1, <2>2 DEF ThreadType, Woken
  <2>5. SUFFICES ASSUME NEW v \in Users \ {u, t}, th[v].sleep = "asleep"
                 PROVE  Owed(th[v], word, th')
    <3>1. Rests(th'[u]) /\ Rests(th'[t])
      BY Zenon, <2>3, <2>4 DEF Rests
    <3>2. \A v \in Users \ {u, t} : Rests(th'[v])
                    /\ (th'[v].sleep = "asleep" => Owed(th'[v], word, th'))
      BY Zenon, <1>1, <2>3, <2>5
    <3>3. th'[u].sleep # "asleep" /\ th'[t].sleep # "asleep"
      BY Zenon, <2>3, <2>4
    <3> QED  BY Zenon, <1>2, <3>1, <3>2, <3>3 DEF WakeInv
  <2>6. \A y \in Users : th[y].at \in {"wake all", "clear"} => th'[y] = th[y]
    BY Zenon, <1>2, <2>2, <2>3
  <2>7. th[v].at = "lock" => Stirs(th'[u], th[v])
    BY Zenon, <2>3 DEF Stirs
  <2>8. Owed(th[v], word, th)
    BY Zenon, <1>1, <2>5
  <2>9. CASE \E y \in Users : th[y].at = "wake all" /\ Covers(th[y].mask, th[v])
    BY Zenon, <2>6, <2>9 DEF Owed
  <2>10. CASE Marked(th[v], word) /\ Stuck(th[v], word)
    BY Zenon, <2>10 DEF Owed
  <2>11. CASE Marked(th[v], word) /\ \E y \in Users : Stirs(th[y], th[v])
    <3>1. PICK y \in Users : Stirs(th[y], th[v])
      BY <2>11
    <3>2. CASE th[y].at = "clear" /\ Covers(th[y].mask, th[v])
      <4>1. th'[y] = th[y]
        BY Zenon, <2>6, <3>2
      <4> QED  BY Zenon, <2>11, <3>1, <4>1 DEF Owed
    <3>3. CASE th[v].at = "lock"
      BY Zenon, <2>2, <2>7, <2>11, <3>3 DEF Owed
    <3> QED  BY Zenon, <3>1, <3>2, <3>3 DEF Stirs
  <2> QED  BY Zenon, <2>8, <2>9, <2>10, <2>11 DEF Owed
<1>6. CASE Asleep({"E"}) = {} /\ th' = [th EXCEPT ![t].at = "clear"]
  <2>1. /\ th'[t].sleep = "no" /\ th'[t].at = "clear"
        /\ \A v \in Users : v # t => th'[v] = th[v]
    BY <1>1, <1>3, <1>6 DEF ThreadType
  <2>2. SUFFICES ASSUME NEW v \in Users, v # t, th[v].sleep = "asleep"
                 PROVE  Owed(th[v], word, th')
    BY Zenon, <1>1, <1>2, <2>1 DEF WakeInv, Rests
  <2>3. th[v].at # "lock"
    <3>1. th[v].at = "lock" => WaitMask(v) = "E"
      BY DEF WaitMask
    <3> QED  BY <1>6, <2>2, <3>1 DEF Asleep
  <2>4. \A y \in Users : th[y].at \in {"wake all", "clear"} => th'[y] = th[y]
    BY Zenon, <1>2, <2>1
  <2>5. \A y \in Users : Stirs(th[y], th[v]) =>
                            th[y].at = "clear" /\ Covers(th[y].mask, th[v])
    BY Zenon, <2>3 DEF Stirs
  <2>6. \A y \in Users : Stirs(th[y], th[v]) => Stirs(th'[y], th[v])
    BY Zenon, <2>4, <2>5
  <2>7. Owed(th[v], word, th)
    BY Zenon, <1>1, <2>2
  <2> QED  BY Zenon, <2>4, <2>6, <2>7 DEF Owed
<1> QED  BY Zenon, <1>5, <1>6 DEF WakeOne

LEMMA ClearBitsWake ==
  ASSUME IInv, WakeInv(word, th), NEW t \in Users, ClearBits(t)
  PROVE  WakeInv(word', th')
<1> DEFINE M == th[t].mask
<1>1. /\ th \in [Users -> ThreadType] /\ \A v \in Users : Rests(th[v])
      /\ word \in WordType
      /\ \A v \in Users : th[v].sleep = "asleep" => Owed(th[v], word, th)
  BY Zenon DEF IInv, WakeInv, LockInv, Types
<1>2. th[t].at = "clear" /\ word' = ClearWaiters(word, M)
  BY Zenon DEF ClearBits
<1>3. th[t].sleep = "no"
  BY <1>1, <1>2 DEF Rests, Waiting
<1>4. /\ th'[t].sleep = "no" /\ \A v \in Users : v # t => th'[v] = th[v]
      /\ Waiters(word) \cap M # {} => th'[t].at = "wake all" /\ th'[t].mask = M
  <2> DEFINE z == [th[t] EXCEPT !.at = "wake all"]
  <2>1. th' = [th EXCEPT ![t] = IF Waiters(word) \cap M = {} THEN Woken(t) ELSE z]
    BY Zenon DEF ClearBits
  <2>2. /\ Woken(t).sleep = "no" /\ z.sleep = "no" /\ z.at = "wake all"
        /\ z.mask = M
    BY <1>1, <1>3 DEF ThreadType, Woken
  <2> HIDE DEF z, M
  <2> QED  BY Zenon, <1>1, <2>1, <2>2
<1> HIDE DEF M
<1>5. /\ HasSolo(word') = HasSolo(word) /\ word'.hasE = word.hasE
      /\ word'.s = word.s /\ Waiters(word) \ M \subseteq Waiters(word')
  <2>1. /\ word' \in WordType /\ KeepBits(word, word') /\ word'.s = word.s
    BY Zenon, <1>1, <1>2, ClearWaitersWord
  <2>2. /\ "NotS" \notin M => word'.waitNotS = word.waitNotS
        /\ "E" \notin M => word'.waitE = word.waitE
        /\ "U" \notin M => word'.waitU = word.waitU
        /\ "S" \notin M => word'.waitS = word.waitS
    BY <1>1, <1>2 DEF ClearWaiters, WordType
  <2>3. Waiters(word) \ M \subseteq Waiters(word')
    BY <1>1, <2>1, <2>2, WaitersAre
  <2> QED  BY Zenon, <2>1, <2>3 DEF KeepBits, HasSolo
<1>6. \A x : Marked(x, word) => Covers(M, x) \/ Marked(x, word')
  BY Zenon, <1>5 DEF Marked, Covers
<1>7. \A x : Stuck(x, word) => Stuck(x, word')
  BY Zenon, <1>5 DEF Stuck
<1>8. SUFFICES ASSUME NEW v \in Users, v # t, th[v].sleep = "asleep"
               PROVE  Owed(th[v], word', th')
  BY Zenon, <1>1, <1>4 DEF WakeInv, Rests
<1>9. Owed(th[v], word, th)
  BY Zenon, <1>1, <1>8
<1>10. CASE \E y \in Users : th[y].at = "wake all" /\ Covers(th[y].mask, th[v])
  BY Zenon, <1>2, <1>4, <1>10 DEF Owed
<1>11. CASE Marked(th[v], word) /\ Covers(M, th[v])
  <2>1. Waiters(word) \cap M # {}
    BY Zenon, <1>11, Found DEF Marked
  <2> QED  BY Zenon, <1>4, <1>11, <2>1 DEF Owed
<1>12. CASE Marked(th[v], word) /\ ~Covers(M, th[v]) /\ Stuck(th[v], word)
  BY Zenon, <1>6, <1>7, <1>12 DEF Owed
<1>13. CASE /\ Marked(th[v], word) /\ ~Covers(M, th[v])
            /\ \E y \in Users : Stirs(th[y], th[v])
  <2>1. PICK y \in Users : Stirs(th[y], th[v])
    BY <1>13
  <2>2. y # t
    BY Zenon, <1>2, <1>13, <2>1 DEF Stirs, M
  <2> QED  BY Zenon, <1>4, <1>6, <1>13, <2>1, <2>2 DEF Owed
<1> QED  BY Zenon, <1>9, <1>10, <1>11, <1>12, <1>13 DEF Owed

LEMMA WakeAllWake ==
  ASSUME IInv, WakeInv(word, th), NEW t \in Users, WakeAll(t)
  PROVE  WakeInv(word', th')
<1> DEFINE M == th[t].mask
<1>1. /\ th \in [Users -> ThreadType] /\ \A v \in Users : Rests(th[v])
      /\ \A v \in Users : th[v].sleep = "asleep" => Owed(th[v], word, th)
  BY Zenon DEF IInv, WakeInv
<1>2. th[t].at = "wake all" /\ word' = word
  BY Zenon DEF WakeAll
<1>3. th[t].sleep = "no" /\ M \in Masks
  BY Zenon, <1>1, <1>2 DEF Rests, Waiting, ThreadType, Masks
<1>4. \A v \in Users : v \in Asleep(M) <=> th[v].sleep = "asleep" /\ Covers(M, th[v])
  BY Zenon, <1>3, MaskIs DEF Asleep
<1>5. /\ th'[t].sleep = "no"
      /\ \A v \in Asleep(M) : v \in Users => th'[v].sleep = "no"
      /\ \A v \in Users : v # t /\ v \notin Asleep(M) => th'[v] = th[v]
  <2>1. /\ Woken(t).sleep = "no"
        /\ \A v \in Users : [th[v] EXCEPT !.sleep = "no"].sleep = "no"
    BY <1>1, <1>3 DEF ThreadType, Woken
  <2>2. th' = [u \in Users |->
                 IF u \in Asleep(M) THEN [th[u] EXCEPT !.sleep = "no"]
                 ELSE IF u = t THEN Woken(t) ELSE th[u]]
    BY Zenon DEF WakeAll
  <2> HIDE DEF M
  <2> QED  BY Zenon, <2>1, <2>2
<1> HIDE DEF M
<1>6. SUFFICES ASSUME NEW v \in Users, v # t, v \notin Asleep(M),
                      th[v].sleep = "asleep"
               PROVE  Owed(th[v], word, th')
  BY Zenon, <1>1, <1>2, <1>5 DEF WakeInv, Rests
<1>7. Owed(th[v], word, th) /\ ~Covers(M, th[v])
  BY Zenon, <1>1, <1>4, <1>6
<1>8. CASE \E y \in Users : th[y].at = "wake all" /\ Covers(th[y].mask, th[v])
  <2>1. PICK y \in Users : th[y].at = "wake all" /\ Covers(th[y].mask, th[v])
    BY Zenon, <1>8
  <2>2. y # t /\ th[y].sleep # "asleep"
    BY Zenon, <1>1, <1>7, <2>1 DEF M, Rests, Waiting
  <2>3. th'[y] = th[y]
    BY Zenon, <1>4, <1>5, <2>2
  <2> QED  BY Zenon, <2>1, <2>3 DEF Owed
<1>9. CASE Marked(th[v], word) /\ Stuck(th[v], word)
  BY Zenon, <1>9 DEF Owed
<1>10. CASE Marked(th[v], word) /\ \E y \in Users : Stirs(th[y], th[v])
  <2>1. PICK y \in Users : Stirs(th[y], th[v])
    BY <1>10
  <2>2. y # t /\ th[y].sleep # "asleep"
    BY Zenon, <1>1, <1>2, <2>1 DEF Stirs, Rests, Waiting
  <2>3. th'[y] = th[y]
    BY Zenon, <1>4, <1>5, <2>2
  <2> QED  BY Zenon, <1>10, <2>1, <2>3 DEF Owed
<1> QED  BY Zenon, <1>7, <1>8, <1>9, <1>10 DEF Owed

-----------------------------------------------------------------------------
(* The theorem *)

LEMMA WakeInit ==
  ASSUME MutexInit
  PROVE  WakeInv(word, th)
<1>1. \A t \in Users : th[t].sleep = "no"
  BY Zenon, AwaySleep DEF MutexInit
<1> QED  BY <1>1 DEF WakeInv, Rests

LEMMA WakeNext ==
  ASSUME Sizes, IInv, IInv', WakeInv(word, th), [MutexNext]_mutexVars
  PROVE  WakeInv(word', th')
<1>1. CASE UNCHANGED mutexVars
  BY Zenon, <1>1 DEF mutexVars
<1>2. CASE MutexNext
  <2>1. PICK t \in Users :
          GoesOn(t) \/ Writes(t) \/ Upgrades(t) \/ Shares(t) \/ UnlockShared(t)
          \/ TimeOut(t) \/ Interrupted(t)
    BY Zenon, <1>2 DEF MutexNext
  <2>2. Calm(t) /\ word' = word => WakeInv(word', th')
    <3>1. word' = word => \A x : Lasts(x, word, word')
      BY Zenon DEF Lasts
    <3> QED  BY Zenon, <3>1, CalmInv
  <2>3. ASSUME \/ LockExclusive(t) \/ ApplyDone(t) \/ Drained(t)
               \/ LockUpgradeImpl(t)
               \/ LockInline(t) \/ \E j \in Table : FindSlot(t, j)
        PROVE  WakeInv(word', th')
    BY Zenon, <2>3, CalmWord, CalmInv
  <2>4. CASE GoesOn(t)
    <3>1. CASE \/ TakeSlot(t) \/ CheckSlot(t) \/ ReleaseSlot(t) \/ SearchFailed(t)
               \/ \E j \in Table : SearchSlot(t, j) \/ ApplySlot(t, j)
      BY Zenon, <2>2, <3>1, CalmAction
    <3> QED  BY Zenon, <2>3, <2>4, <3>1, AnnounceWake, FutexWaitWake, WakeOneWake,
                ClearBitsWake, WakeAllWake, LastReaderInv DEF GoesOn
  <2>5. CASE Writes(t)
    BY Zenon, <2>2, <2>5, CalmAction, ReleaseInv, DowngradeInv DEF Writes
  <2>6. CASE Upgrades(t)
    BY Zenon, <2>2, <2>6, CalmAction, ReleaseInv, DowngradeInv DEF Upgrades
  <2>7. CASE Shares(t) \/ UnlockShared(t) \/ Interrupted(t)
    BY Zenon, <2>2, <2>7, CalmAction DEF Shares
  <2>8. CASE TimeOut(t)
    BY Zenon, <2>2, <2>8, CalmAction, ReleaseInv
  <2> QED  BY Zenon, <2>1, <2>4, <2>5, <2>6, <2>7, <2>8
<1> QED  BY Zenon, <1>1, <1>2

LEMMA OwedAtRest ==
  ASSUME IInv, WakeInv(word, th)
  PROVE  SleepersAreOwedWake
<1>1. /\ \A v \in Users : Rests(th[v]) /\ word \in WordType
      /\ \A v \in Users : th[v].sleep = "asleep" => Owed(th[v], word, th)
  BY Zenon DEF IInv, WakeInv, LockInv, Types
<1>2. SUFFICES ASSUME \A v \in Users : AtRest(v), NEW t \in Users,
                      th[t].sleep = "asleep"
               PROVE  Blocked(t, word) /\ WaitMask(t) \in Waiters(word)
  BY Zenon DEF SleepersAreOwedWake
<1>3. \A v \in Users : /\ th[v].at \notin Waking
                       /\ ~(th[v].at = "lock" /\ th[v].sleep = "no")
  BY Zenon, <1>1, <1>2 DEF AtRest, Rests, Waiting, Waking
<1>4. Marked(th[t], word) /\ Stuck(th[t], word)
  BY Zenon, <1>1, <1>2, <1>3 DEF Owed, Stirs, Waking
<1>5. Waiters(word) \in Masks
  BY <1>1, WaitersAre DEF Masks
<1>6. th[t].at = "lock" => ~th[t].up
  BY <1>1, <1>2 DEF Rests
<1> QED  BY Zenon, <1>4, <1>5, <1>6, MaskIs DEF Marked

(* No wakeup of the shared mutex is lost, with either priority, for every  *)
(* finite set of threads and of slots: when every thread sleeps on the     *)
(* word or has returned from its calls, each sleeper is kept by a lock     *)
(* that is held, and its wait bit is set, so that whoever releases that    *)
(* lock will wake it.                                                      *)
THEOREM SleepersAreOwedWakeHolds == MutexSpec => []SleepersAreOwedWake
<1> DEFINE Inv == IInv /\ WakeInv(word, th)
<1>1. MutexInit => Inv
  BY SizesAssumption, InitInv, WakeInit
<1>2. Inv /\ [MutexNext]_mutexVars => Inv'
  BY SizesAssumption, NextInv, WakeNext
<1>3. Inv => SleepersAreOwedWake
  BY OwedAtRest
<1> QED  BY <1>1, <1>2, <1>3, PTL DEF MutexSpec

=============================================================================
