----------------------------- MODULE Singleton ------------------------------
(***************************************************************************)
(* Objects of which a process has one: SingletonHolder of Singleton.h and  *)
(* EventLoopManager of event/EventLoopManager.{h,cpp}.                     *)
(***************************************************************************)
EXTENDS Integers, TLAPS

-----------------------------------------------------------------------------
(***************************************************************************)
(* SingletonHolder of accelerator/Singleton.h: threads ask for the one     *)
(* instance while it is registered and made.  Instances are numbered from  *)
(* 1, in the order of their making; 0 is nullptr.  Fields that a reader    *)
(* may race with after a second registration are read as whole values.     *)
(***************************************************************************)

CONSTANTS
  Askers,          \* threads, numbered from 1
  MaxAsks,         \* bound: calls of each thread
  MaxRegistered    \* bound: calls of registerSingleton

VARIABLES
  holder,       \* state_, lock_ (0 when free), instance_, instance_weak_,
                \* instance_ptr_
  ask,          \* of each thread: place, call, answer, what it got, calls
  made,         \* instances made so far
  registered,   \* calls of registerSingleton
  late          \* those that found an instance already made

At(t, place) == ask[t].at = place

Go(t, place) == ask' = [ask EXCEPT ![t].at = place]

Returns(t, answer, p) ==
  ask' = [ask EXCEPT ![t].at = "idle", ![t].answer = answer, ![t].got = p,
                     ![t].asks = @ + 1]

(* The instances alive: instance_ and the shared_ptrs of try_get() own.    *)
Owned ==
  {holder.instance} \cup
  {ask[t].got : t \in {s \in Askers : ask[s].how = "try"}}

(* get(), get_weak() and try_get() start by loading state_.                *)
Ask(t, how) ==
  /\ At(t, "idle") /\ ask[t].asks < MaxAsks
  /\ ask' = [ask EXCEPT ![t].how = how, ![t].got = 0, ![t].answer = "none",
               ![t].at = IF holder.state = "Living" THEN "read" ELSE "lock"]
  /\ UNCHANGED <<holder, made, registered, late>>

(* createInstance() looks at state_ again under the lock.                  *)
CreateInstance(t) ==
  /\ At(t, "lock") /\ holder.lock = 0
  /\ IF holder.state = "Living" THEN Go(t, "check") /\ UNCHANGED holder
     ELSE Go(t, "create") /\ holder' = [holder EXCEPT !.lock = t]
  /\ UNCHANGED <<made, registered, late>>

(* create_() or new T makes an instance, which instance_ takes over, or    *)
(* throws.                                                                 *)
Create(t) ==
  /\ At(t, "create")
  /\ \/ /\ made' = made + 1
        /\ holder' = [holder EXCEPT !.instance = made + 1]
        /\ Go(t, "weak")
     \/ /\ holder' = [holder EXCEPT !.lock = 0]
        /\ Returns(t, "threw", 0)
        /\ UNCHANGED made
  /\ UNCHANGED <<registered, late>>

Publish(t) ==
  /\ \/ /\ At(t, "weak") /\ Go(t, "ptr")
        /\ holder' = [holder EXCEPT !.weak = holder.instance]
     \/ /\ At(t, "ptr") /\ Go(t, "live")
        /\ holder' = [holder EXCEPT !.ptr = holder.instance]
     \/ /\ At(t, "live") /\ Go(t, "check")
        /\ holder' = [holder EXCEPT !.state = "Living", !.lock = 0]
  /\ UNCHANGED <<made, registered, late>>

(* get() throws when the instance has expired; the other calls do not look.*)
Check(t) ==
  /\ At(t, "check")
  /\ IF ask[t].how = "get" /\ holder.weak \notin Owned
     THEN Returns(t, "expired", 0) ELSE Go(t, "read")
  /\ UNCHANGED <<holder, made, registered, late>>

(* get() returns instance_ptr_, get_weak() a copy of instance_weak_, and   *)
(* try_get() locks it, which gives nullptr when it has expired.            *)
Read(t) ==
  /\ At(t, "read")
  /\ Returns(t, "ok",
       CASE ask[t].how = "get"  -> holder.ptr
         [] ask[t].how = "weak" -> holder.weak
         [] ask[t].how = "try"  ->
              IF holder.weak \in Owned THEN holder.weak ELSE 0)
  /\ UNCHANGED <<holder, made, registered, late>>

RegisterSingleton ==
  /\ registered < MaxRegistered /\ registered' = registered + 1
  /\ holder.lock = 0 /\ holder' = [holder EXCEPT !.state = "Dead"]
  /\ late' = IF made > 0 THEN late + 1 ELSE late
  /\ UNCHANGED <<ask, made>>

SingletonInit ==
  /\ holder = [state |-> "NotRegistered", lock |-> 0,
               instance |-> 0, weak |-> 0, ptr |-> 0]
  /\ ask = [t \in Askers |-> [at |-> "idle", how |-> "none", got |-> 0,
                              answer |-> "none", asks |-> 0]]
  /\ made = 0 /\ registered = 0 /\ late = 0

SingletonNext ==
  \/ RegisterSingleton
  \/ \E t \in Askers :
       \/ \E how \in {"get", "weak", "try"} : Ask(t, how)
       \/ CreateInstance(t) \/ Create(t) \/ Publish(t) \/ Check(t) \/ Read(t)

SingletonSpec ==
  SingletonInit /\ [][SingletonNext]_<<holder, ask, made, registered, late>>

(* However the calls interleave, no more instances are made than one and   *)
(* one for each registration that came after an instance; without such a   *)
(* registration every call that does not throw, the lock-free ones         *)
(* included, hands out the one instance, and none finds it expired.  When  *)
(* nobody is creating and the state is Living the three fields agree.      *)
OneInstance ==
  /\ made <= 1 + late
  /\ late = 0 => \A t \in Askers :
       /\ ask[t].answer # "expired"
       /\ ask[t].answer = "ok" => ask[t].got = 1
  /\ holder.lock = 0 /\ holder.state = "Living" =>
       /\ holder.instance = made
       /\ holder.weak = made /\ holder.ptr = made

-----------------------------------------------------------------------------
(***************************************************************************)
(* EventLoopManager of event/EventLoopManager.{h,cpp}: the one manager of  *)
(* the process, the loop each thread keeps in thread-local storage, and    *)
(* the set of loops that withEventLoopSet shows to a visitor.  The loop    *)
(* that thread t makes is the number t; -t is one that setEventLoop is     *)
(* given and does not own, which lives on; 0 is nullptr.                   *)
(***************************************************************************)

CONSTANTS
  Users,       \* threads, numbered from 1
  MaxCalls     \* bound: calls of each thread

VARIABLES
  globalManager,   \* the thread whose manager it is, or 0
  user,     \* of each thread: place, the manager it holds, its own loop
            \* (localStore_), calls made, whether it threw
  loops,    \* loops_
  alive     \* loops that have not been deleted

Step(t, place) == user' = [user EXCEPT ![t].at = place]

Calling(t) == user[t].at = "ready" /\ user[t].calls < MaxCalls

(* EventLoopManager::get(): a load; without a manager a new one, which the *)
(* thread deletes when the exchange finds another's.                       *)
Get(t) ==
  /\ \/ /\ user[t].at = "start" /\ globalManager = 0 /\ Step(t, "exchange")
        /\ UNCHANGED globalManager
     \/ /\ user[t].at = "start" /\ globalManager # 0
        /\ user' = [user EXCEPT ![t].at = "ready", ![t].mgr = globalManager]
        /\ UNCHANGED globalManager
     \/ /\ user[t].at = "exchange"
        /\ globalManager' = IF globalManager = 0 THEN t ELSE globalManager
        /\ user' = [user EXCEPT ![t].at = "ready", ![t].mgr = globalManager']
  /\ UNCHANGED <<loops, alive>>

(* getEventLoop() makes a loop if the thread has none; setEventLoop()      *)
(* throws if it has one.  Tracking the loop is a step of its own.          *)
Keep(t, loop) ==
  /\ user' = [user EXCEPT ![t].at = IF user[t].loop = 0 THEN "track" ELSE @,
                          ![t].loop = IF @ = 0 THEN loop ELSE @,
                          ![t].calls = @ + 1]
  /\ alive' = IF user[t].loop = 0 THEN alive \cup {loop} ELSE alive
  /\ UNCHANGED <<globalManager, loops>>

GetEventLoop(t) == Calling(t) /\ Keep(t, t)

SetEventLoop(t, takeOwnership) ==
  Calling(t) /\ Keep(t, IF takeOwnership THEN t ELSE -t)

TrackEventLoop(t) ==
  /\ user[t].at = "track" /\ Step(t, "ready")
  /\ loops' = loops \cup {user[t].loop}
  /\ UNCHANGED <<globalManager, alive>>

(* clearEventLoop(): out of the set first, then the loop if it is owned.   *)
ClearEventLoop(t) ==
  /\ Calling(t) /\ user[t].loop # 0
  /\ loops' = loops \ {user[t].loop}
  /\ user' = [user EXCEPT ![t].at = "reset", ![t].calls = @ + 1]
  /\ UNCHANGED <<globalManager, alive>>

ResetLocal(t) ==
  /\ user[t].at = "reset"
  /\ alive' = alive \ {t}
  /\ user' = [user EXCEPT ![t].at = "ready", ![t].loop = 0]
  /\ UNCHANGED <<globalManager, loops>>

(* A thread ends; ThreadLocalPtr::OnThreadExit deletes what it still has.  *)
Exit(t) ==
  /\ user[t].at = "ready" /\ Step(t, "gone")
  /\ alive' = alive \ {t}
  /\ UNCHANGED <<globalManager, loops>>

ManagerInit ==
  /\ globalManager = 0 /\ loops = {} /\ alive = {}
  /\ user = [t \in Users |-> [at |-> "start", mgr |-> 0, loop |-> 0,
                              calls |-> 0]]

ManagerNext ==
  \E t \in Users :
    \/ Get(t) \/ GetEventLoop(t) \/ TrackEventLoop(t)
    \/ \E own \in BOOLEAN : SetEventLoop(t, own)
    \/ ClearEventLoop(t) \/ ResetLocal(t) \/ Exit(t)

ManagerSpec ==
  ManagerInit /\ [][ManagerNext]_<<globalManager, user, loops, alive>>

(* All threads share one manager.  A visitor of withEventLoopSet meets no  *)
(* deleted loop but one whose thread ended without clearing it, and it     *)
(* meets the loop of every thread between its calls.                       *)
OneManager ==
  /\ \A t \in Users : user[t].mgr \in {0, globalManager}
  /\ \A l \in loops \ alive : l \in Users /\ user[l].at = "gone"
                              /\ user[l].loop = l
  /\ \A t \in Users :
       user[t].at = "ready" /\ user[t].loop # 0 => user[t].loop \in loops

-----------------------------------------------------------------------------
(***************************************************************************)
(* OneInstance for any set of threads and any number of calls and          *)
(* registrations.  OneInstance is not inductive: it does not say who may   *)
(* be writing the fields, nor what a thread that is past state_ relies on. *)
(***************************************************************************)

Places == {"idle", "lock", "create", "weak", "ptr", "live", "check", "read"}

Asking == [at : Places, how : {"none", "get", "weak", "try"}, got : Nat,
           answer : {"none", "ok", "threw", "expired"}, asks : Nat]

Types ==
  /\ holder \in [state : {"NotRegistered", "Dead", "Living"},
                 lock : Askers \cup {0}, instance : Nat, weak : Nat, ptr : Nat]
  /\ ask \in [Askers -> Asking]
  /\ made \in Nat /\ registered \in Nat /\ late \in Nat

Filling == {"weak", "ptr", "live"}

(* The lock is with the thread inside createInstance, and state_ is not    *)
(* Living while it is.                                                     *)
Locked ==
  /\ \A t \in Askers :
       holder.lock = t <=> ask[t].at \in {"create"} \cup Filling
  /\ holder.lock # 0 => holder.state # "Living"

(* The fields name the last instance but where the lock's owner has still  *)
(* to store them.                                                          *)
Fields ==
  /\ holder.instance = made
  /\ (\A t \in Askers : ask[t].at # "weak") => holder.weak = made
  /\ (\A t \in Askers : ask[t].at \notin {"weak", "ptr"}) => holder.ptr = made

(* An instance may be made only when a registration has cancelled each of  *)
(* the earlier ones.                                                       *)
Counted ==
  /\ made <= 1 + late
  /\ holder.state # "Living" /\ (\A t \in Askers : ask[t].at \notin Filling) =>
       made <= late

(* A thread in a call knows which.  One past state_ or createInstance has  *)
(* an instance to return, and only a late registration can have unmade     *)
(* Living.                                                                 *)
Past ==
  /\ \A t \in Askers : ask[t].at # "idle" => ask[t].how # "none"
  /\ holder.state = "Living" => made > 0
  /\ \A t \in Askers : ask[t].at \in Filling => made > 0
  /\ \A t \in Askers : ask[t].at \in {"check", "read"} =>
       made > 0 /\ (late = 0 => holder.state = "Living")

Answers ==
  late = 0 => \A t \in Askers :
    /\ ask[t].answer # "expired"
    /\ ask[t].answer = "ok" => ask[t].got = 1

Inv == Types /\ Locked /\ Fields /\ Counted /\ Past /\ Answers

USE DEF Places, Asking, Filling, At, Go, Returns

LEMMA InvInit == ASSUME 0 \notin Askers PROVE SingletonInit => Inv
  BY DEF SingletonInit, Inv, Types, Locked, Fields, Counted, Past, Answers

(* While an asker is past state_ and nothing was registered late, nobody   *)
(* is creating and the fields are those of instance 1.                     *)
LEMMA PastIsOne ==
  ASSUME Inv, 0 \notin Askers, late = 0, NEW t \in Askers,
         ask[t].at \in {"check", "read"}
  PROVE  /\ holder.lock = 0 /\ made = 1
         /\ holder.instance = 1 /\ holder.weak = 1 /\ holder.ptr = 1
<1>1. holder.state = "Living" /\ made > 0
  BY DEF Inv, Past
<1>2. holder.lock = 0
  BY <1>1 DEF Inv, Locked
<1>3. made = 1
  BY <1>1 DEF Inv, Counted, Types
<1>4. \A s \in Askers : ask[s].at \notin {"weak", "ptr"}
  BY <1>2 DEF Inv, Locked
<1> QED
  BY <1>2, <1>3, <1>4 DEF Inv, Fields

LEMMA InvNext ==
  ASSUME 0 \notin Askers, Inv, SingletonNext
  PROVE  Inv'
<1> USE DEF Inv
<1>1. CASE RegisterSingleton
  BY <1>1 DEF RegisterSingleton, Types, Locked, Fields, Counted, Past, Answers
<1>2. ASSUME NEW t \in Askers, NEW how \in {"get", "weak", "try"}, Ask(t, how)
      PROVE  Inv'
  <2>1. Types'
    BY <1>2 DEF Ask, Types
  <2>2. \A s \in Askers :
          /\ s # t => ask'[s] = ask[s]
          /\ ask'[t].at = IF holder.state = "Living" THEN "read" ELSE "lock"
          /\ ask'[t].answer = "none" /\ ask'[t].how = how
    BY <1>2 DEF Ask, Types
  <2>3. ask[t].at = "idle" /\ UNCHANGED <<holder, made, registered, late>>
    BY <1>2 DEF Ask
  <2>4. Locked' /\ Fields' /\ Counted'
    BY <2>2, <2>3 DEF Locked, Fields, Counted, Types
  <2>5. Past' /\ Answers'
    BY <2>2, <2>3 DEF Past, Answers, Types
  <2> QED
    BY <2>1, <2>4, <2>5
<1>3. ASSUME NEW t \in Askers, CreateInstance(t) PROVE Inv'
  BY <1>3 DEF CreateInstance, Types, Locked, Fields, Counted, Past, Answers
<1>4. ASSUME NEW t \in Askers, Create(t) PROVE Inv'
  BY <1>4 DEF Create, Types, Locked, Fields, Counted, Past, Answers
<1>5. ASSUME NEW t \in Askers, Publish(t) PROVE Inv'
  <2> DEFINE Rest == UNCHANGED <<made, registered, late>>
  <2>1. CASE /\ At(t, "weak") /\ Go(t, "ptr") /\ Rest
             /\ holder' = [holder EXCEPT !.weak = holder.instance]
    BY <2>1 DEF Types, Locked, Fields, Counted, Past, Answers
  <2>2. CASE /\ At(t, "ptr") /\ Go(t, "live") /\ Rest
             /\ holder' = [holder EXCEPT !.ptr = holder.instance]
    BY <2>2 DEF Types, Locked, Fields, Counted, Past, Answers
  <2>3. CASE /\ At(t, "live") /\ Go(t, "check") /\ Rest
             /\ holder' = [holder EXCEPT !.state = "Living", !.lock = 0]
    <3>1. Types' /\ \A s \in Askers : s # t => ask'[s] = ask[s]
      BY <2>3 DEF Types
    <3>2. ask'[t] = [ask[t] EXCEPT !.at = "check"]
      BY <2>3 DEF Types
    <3>3. \A s \in Askers : s # t => ask[s].at \notin {"create"} \cup Filling
      BY <2>3 DEF Locked
    <3>4. Locked'
      BY <2>3, <3>1, <3>2, <3>3 DEF Locked, Types
    <3>5. Fields' /\ Counted'
      BY <2>3, <3>1, <3>2, <3>3 DEF Fields, Counted, Types
    <3>6. Past' /\ Answers'
      BY <2>3, <3>1, <3>2, <3>3 DEF Past, Answers, Types
    <3> QED
      BY <3>1, <3>4, <3>5, <3>6
  <2> QED
    BY <1>5, <2>1, <2>2, <2>3 DEF Publish
<1>6. ASSUME NEW t \in Askers, Check(t) PROVE Inv'
  BY <1>6, PastIsOne
     DEF Check, Owned, Types, Locked, Fields, Counted, Past, Answers
<1>7. ASSUME NEW t \in Askers, Read(t) PROVE Inv'
  <2>1. PICK p \in Nat : /\ Returns(t, "ok", p)
                         /\ late = 0 => p = 1
    <3>1. holder.weak \in Nat /\ holder.ptr \in Nat
          /\ ask[t].how \in {"none", "get", "weak", "try"}
      BY DEF Types
    <3>2. ask[t].how # "none"
      BY <1>7 DEF Read, Types, Past
    <3>3. late = 0 => /\ holder.weak = 1 /\ holder.ptr = 1
                      /\ holder.weak \in Owned
      BY <1>7, PastIsOne DEF Read, Owned
    <3> QED
      BY <1>7, <3>1, <3>2, <3>3 DEF Read
  <2>2. At(t, "read") /\ UNCHANGED <<holder, made, registered, late>>
    BY <1>7 DEF Read
  <2> QED
    BY <2>1, <2>2 DEF Types, Locked, Fields, Counted, Past, Answers
<1> QED
  BY <1>1, <1>2, <1>3, <1>4, <1>5, <1>6, <1>7 DEF SingletonNext

(* Of the calls get, get_weak and try_get of SingletonHolder, however many *)
(* threads make them and whatever create_ throws: no more instances are    *)
(* made than one and one for each late registration, and without one every *)
(* call that returns hands out the same.                                   *)
THEOREM OneInstanceHolds ==
  ASSUME 0 \notin Askers PROVE SingletonSpec => []OneInstance
<1>1. Inv /\ UNCHANGED <<holder, ask, made, registered, late>> => Inv'
  BY DEF Inv, Types, Locked, Fields, Counted, Past, Answers
<1>2. Inv => OneInstance
  <2> SUFFICES ASSUME Inv PROVE OneInstance
    OBVIOUS
  <2>1. holder.lock = 0 => \A t \in Askers : ask[t].at \notin Filling
    BY DEF Inv, Locked
  <2> QED
    BY <2>1 DEF Inv, OneInstance, Counted, Answers, Fields
<1> QED
  BY <1>1, <1>2, InvInit, InvNext, PTL DEF SingletonSpec

-----------------------------------------------------------------------------
(***************************************************************************)
(* OneManager for any threads and any number of calls.  The invariant that *)
(* carries it says whose each loop in the set is, and which loops live.    *)
(***************************************************************************)

UserPlaces == {"start", "exchange", "ready", "track", "reset", "gone"}

Using == [at : UserPlaces, mgr : Users \cup {0}, loop : Int, calls : Nat]

ManagerTypes ==
  /\ globalManager \in Users \cup {0}
  /\ user \in [Users -> Using]
  /\ loops \subseteq Int /\ alive \subseteq Int

(* A thread has its own loop, one it was given, or none.                   *)
Owns == \A t \in Users :
  /\ user[t].loop \in {0, t, -t}
  /\ user[t].at \in {"start", "exchange"} =>
       user[t].mgr = 0 /\ user[t].loop = 0
  /\ user[t].at = "track" => user[t].loop # 0
  /\ user[t].mgr \in {0, globalManager}

(* A loop is in the set from trackEventLoop to clearEventLoop, or for good *)
(* when its thread ends in between.                                        *)
Tracked ==
  /\ \A l \in loops : \E t \in Users :
       user[t].loop = l /\ l # 0 /\ user[t].at \in {"ready", "gone"}
  /\ \A t \in Users :
       user[t].at = "ready" /\ user[t].loop # 0 => user[t].loop \in loops

Living == \A t \in Users :
  user[t].loop # 0 /\ (user[t].at # "gone" \/ user[t].loop = -t) =>
    user[t].loop \in alive

ManagerInv == ManagerTypes /\ Owns /\ Tracked /\ Living

USE DEF UserPlaces, Using, Calling, Step

LEMMA ManagerInvInit ==
  ASSUME Users \subseteq Nat \ {0} PROVE ManagerInit => ManagerInv
  BY DEF ManagerInit, ManagerInv, ManagerTypes, Owns, Tracked, Living

LEMMA Cleared ==
  ASSUME NEW u \in Using PROVE [u EXCEPT !.at = "ready", !.loop = 0] \in Using
<1>1. \A p \in UserPlaces, l \in Int : [u EXCEPT !.at = p, !.loop = l] \in Using
  OBVIOUS
<1>2. "ready" \in UserPlaces /\ 0 \in Int
  OBVIOUS
<1> HIDE DEF UserPlaces, Using
<1> QED
  BY <1>1, <1>2, Zenon

LEMMA ManagerInvNext ==
  ASSUME Users \subseteq Nat \ {0}, ManagerInv, ManagerNext
  PROVE  ManagerInv'
<1> USE DEF ManagerInv
<1>0. \A s, t \in Users : s # t => s # -t /\ -s # -t /\ s # 0 /\ -s # 0
  OBVIOUS
<1>1. ASSUME NEW t \in Users, Get(t) PROVE ManagerInv'
  BY <1>1 DEF Get, ManagerTypes, Owns, Tracked, Living
<1>2. ASSUME NEW t \in Users, NEW l \in {t, -t}, Calling(t), Keep(t, l)
      PROVE  ManagerInv'
  BY <1>2 DEF Keep, ManagerTypes, Owns, Tracked, Living
<1>3. ASSUME NEW t \in Users, TrackEventLoop(t) PROVE ManagerInv'
  <2>1. ManagerTypes' /\ Owns' /\ Living'
    BY <1>3 DEF TrackEventLoop, ManagerTypes, Owns, Living
  <2>2. /\ \A s \in Users : s # t => user'[s] = user[s]
        /\ user'[t].loop = user[t].loop /\ user[t].loop # 0
        /\ user'[t].at = "ready" /\ user[t].at = "track"
    BY <1>3 DEF TrackEventLoop, ManagerTypes, Owns
  <2>3. Tracked'
    BY <1>3, <2>2 DEF TrackEventLoop, Tracked, ManagerTypes
  <2> QED
    BY <2>1, <2>3
<1>4. ASSUME NEW t \in Users, ClearEventLoop(t) PROVE ManagerInv'
  BY <1>0, <1>4 DEF ClearEventLoop, ManagerTypes, Owns, Tracked, Living
<1>5. ASSUME NEW t \in Users, ResetLocal(t) PROVE ManagerInv'
  <2>1. /\ \A s \in Users : s # t => user'[s] = user[s]
        /\ user'[t].loop = 0 /\ user'[t].at = "ready"
        /\ user'[t].mgr = user[t].mgr /\ user[t].at = "reset"
    BY <1>5 DEF ResetLocal, ManagerTypes
  <2>2. ManagerTypes' /\ Owns'
    <3>1. ManagerTypes'
      <4>1. user' \in [Users -> Using]
        <5> DEFINE u == [user[t] EXCEPT !.at = "ready", !.loop = 0]
        <5>1. user \in [Users -> Using] /\ user[t] \in Using
          BY DEF ManagerTypes
        <5>2. u \in Using
          BY <5>1, Cleared
        <5>3. user' = [user EXCEPT ![t] = u]
          BY <1>5, <5>1 DEF ResetLocal
        <5> HIDE DEF u, Using
        <5> QED
          BY <5>1, <5>2, <5>3
      <4>2. globalManager' \in Users \cup {0} /\ loops' \subseteq Int
        BY <1>5 DEF ResetLocal, ManagerTypes
      <4>3. alive' \subseteq Int
        BY <1>5 DEF ResetLocal, ManagerTypes
      <4> QED
        BY <4>1, <4>2, <4>3 DEF ManagerTypes
    <3>2. globalManager' = globalManager
      BY <1>5 DEF ResetLocal
    <3>3. Owns'
      BY <2>1, <3>2 DEF Owns
    <3> QED
      BY <3>1, <3>3
  <2>3. loops' = loops /\ alive' = alive \ {t}
    BY <1>5 DEF ResetLocal
  <2>4. Tracked'
    <3>1. ASSUME NEW l \in loops
          PROVE  \E s \in Users :
                   /\ user'[s].loop = l /\ l # 0
                   /\ user'[s].at \in {"ready", "gone"}
      <4>1. PICK s \in Users :
              user[s].loop = l /\ l # 0 /\ user[s].at \in {"ready", "gone"}
        BY DEF Tracked
      <4>2. s # t
        BY <2>1, <4>1
      <4> QED
        BY <2>1, <4>1, <4>2
    <3> QED
      BY <2>1, <2>3, <3>1 DEF Tracked
  <2>5. Living'
    <3> SUFFICES ASSUME NEW s \in Users, user'[s].loop # 0,
                        user'[s].at # "gone" \/ user'[s].loop = -s
                 PROVE  user'[s].loop \in alive'
      BY DEF Living
    <3>1. s # t /\ user'[s] = user[s]
      BY <2>1
    <3>2. user[s].loop # t
      BY <1>0, <3>1 DEF Owns
    <3> QED
      BY <2>3, <3>1, <3>2 DEF Living
  <2> QED
    BY <2>2, <2>4, <2>5
<1>6. ASSUME NEW t \in Users, Exit(t) PROVE ManagerInv'
  BY <1>0, <1>6 DEF Exit, ManagerTypes, Owns, Tracked, Living
<1> QED
  BY <1>1, <1>2, <1>3, <1>4, <1>5, <1>6
     DEF ManagerNext, GetEventLoop, SetEventLoop

(* Of EventLoopManager::get, the calls on a thread's loop and the visits   *)
(* of withEventLoopSet: one manager for all threads, every thread's loop   *)
(* in the set between its calls, and no deleted loop in it but of threads  *)
(* that ended without clearEventLoop.                                      *)
THEOREM OneManagerHolds ==
  ASSUME Users \subseteq Nat \ {0} PROVE ManagerSpec => []OneManager
<1>1. ManagerInv /\ UNCHANGED <<globalManager, user, loops, alive>> => ManagerInv'
  BY DEF ManagerInv, ManagerTypes, Owns, Tracked, Living
<1>2. ManagerInv => OneManager
  BY DEF ManagerInv, ManagerTypes, Owns, Tracked, Living, OneManager
<1> QED
  BY <1>1, <1>2, ManagerInvInit, ManagerInvNext, PTL DEF ManagerSpec

=============================================================================
