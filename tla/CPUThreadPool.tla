--------------------------- MODULE CPUThreadPool ---------------------------
(***************************************************************************)
(* ThreadPoolExecutor and CPUThreadPoolExecutor of                         *)
(* accelerator/concurrency.  One thread resizes, stops and destroys the    *)
(* pool; others add tasks.  taskQueue_ and stoppedThreads_ are queues      *)
(* whose take blocks (module BlockingQueue), threadListLock_ is a lock     *)
(* (module RWSpinLock), and the startup baton is a guard.                  *)
(***************************************************************************)
EXTENDS Integers, Sequences, FiniteSetTheorems, TLAPS

CONSTANTS
  Workers,    \* the threads the pool may have at a time
  Tasks,      \* the tasks the clients add
  Poison,     \* CPUTask()
  NoTask,
  Capacity,   \* the capacity of taskQueue_
  Ops,        \* the calls the owner makes besides the destructor
  MaxCalls    \* bound: how many of them

ASSUME PoolAssumption ==
  /\ IsFiniteSet(Workers) /\ Capacity \in Nat /\ Poison \notin Tasks
  /\ Ops \subseteq {"setNumThreads", "join", "stop"}

VARIABLES
  taskQueue, threadsToStop, isJoin, threadList, stoppedThreads,
  locked,     \* threadListLock_ is held by the owner
  where,      \* where each worker is in threadRun
  task,       \* the task each worker holds
  owner,      \* the owner's call: its place, arguments and locals
  calls,      \* calls made so far
  goesOn,     \* the owner uses the pool after stop() or a call that threw
  observing,  \* an observer is registered
  observed,   \* the threads it has been told of and believes to run
  added,      \* tasks accepted by add
  done,       \* tasks run or expired
  fatal       \* the ACCCHECK that failed

pool     == <<taskQueue, threadsToStop, isJoin, threadList, stoppedThreads>>
history  == <<added, done, fatal>>
poolVars == <<pool, locked, where, task, owner, calls, goesOn, observing,
              observed, history>>

Idle == [at |-> "idle", op |-> "none", n |-> 0, k |-> 0, i |-> 0,
         fresh |-> {}, owed |-> {}]

Running == fatal = "none" /\ owner.at # "terminated"

-----------------------------------------------------------------------------
(* Clients *)

(* add: a full queue makes it throw and changes nothing.                   *)
Add(t) ==
  /\ t \notin added
  /\ owner.at # "destroyed" /\ owner.op # "destroy"
  /\ Len(taskQueue) < Capacity
  /\ taskQueue' = Append(taskQueue, t)
  /\ added' = added \cup {t}
  /\ UNCHANGED <<threadsToStop, isJoin, threadList, stoppedThreads, locked,
                 where, task, owner, calls, goesOn, observing, observed, done,
                 fatal>>

-----------------------------------------------------------------------------
(* The workers: threadRun *)

Move(w, place) == where' = [where EXCEPT ![w] = place]

OwnerSide == <<locked, owner, calls, goesOn, observing, added>>

Start(w) ==
  /\ where[w] = "starting"
  /\ Move(w, "take")
  /\ UNCHANGED <<pool, OwnerSide, task, observed, done, fatal>>

Take(w) ==
  /\ where[w] = "take"
  /\ taskQueue # <<>>
  /\ taskQueue' = Tail(taskQueue)
  /\ task' = [task EXCEPT ![w] = Head(taskQueue)]
  /\ Move(w, IF Head(taskQueue) = Poison THEN "poisoned" ELSE "run")
  /\ UNCHANGED <<threadsToStop, isJoin, threadList, stoppedThreads, OwnerSide,
                 observed, done, fatal>>

(* A poison task: count down, tell the observers.                          *)
Poisoned(w) ==
  /\ where[w] = "poisoned"
  /\ fatal' = IF threadsToStop > 0 THEN fatal ELSE "poison"
  /\ threadsToStop' = threadsToStop - 1
  /\ observed' = IF observing THEN observed \ {w} ELSE observed
  /\ task' = [task EXCEPT ![w] = NoTask]
  /\ Move(w, "leave")
  /\ UNCHANGED <<taskQueue, isJoin, threadList, stoppedThreads, OwnerSide,
                 done>>

(* runTask: the task runs, or has expired and its callback does.           *)
RunTask(w) ==
  /\ where[w] = "run"
  /\ done' = done \cup {task[w]}
  /\ task' = [task EXCEPT ![w] = NoTask]
  /\ Move(w, "test")
  /\ UNCHANGED <<pool, OwnerSide, observed, fatal>>

(* threadsToStop_ > 0 && !isJoin_: the two loads.                          *)
TestToStop(w) ==
  /\ where[w] = "test"
  /\ Move(w, IF threadsToStop > 0 THEN "testJoin" ELSE "take")
  /\ UNCHANGED <<pool, OwnerSide, task, observed, done, fatal>>

TestJoinIgnored(w) ==   \* mutant
  /\ where[w] = "testJoin"
  /\ Move(w, "countDown")
  /\ UNCHANGED <<pool, OwnerSide, task, observed, done, fatal>>

TestJoinSpins(w) ==   \* mutant
  /\ where[w] = "testJoin"
  /\ Move(w, IF isJoin THEN "test" ELSE "countDown")
  /\ UNCHANGED <<pool, OwnerSide, task, observed, done, fatal>>

TestJoin(w) ==
  /\ where[w] = "testJoin"
  /\ Move(w, IF isJoin THEN "take" ELSE "countDown")
  /\ UNCHANGED <<pool, OwnerSide, task, observed, done, fatal>>

CountDownUnchecked(w) ==   \* mutant
  /\ where[w] = "countDown"
  /\ threadsToStop' = threadsToStop - 1
  /\ Move(w, "leave")
  /\ UNCHANGED <<taskQueue, isJoin, threadList, stoppedThreads, OwnerSide,
                 task, observed, done, fatal>>

(* --threadsToStop_ >= 0                                                   *)
CountDown(w) ==
  /\ where[w] = "countDown"
  /\ threadsToStop' = threadsToStop - 1
  /\ Move(w, IF threadsToStop - 1 >= 0 THEN "leave" ELSE "countUp")
  /\ UNCHANGED <<taskQueue, isJoin, threadList, stoppedThreads, OwnerSide,
                 task, observed, done, fatal>>

CountUp(w) ==
  /\ where[w] = "countUp"
  /\ threadsToStop' = threadsToStop + 1
  /\ Move(w, "take")
  /\ UNCHANGED <<taskQueue, isJoin, threadList, stoppedThreads, OwnerSide,
                 task, observed, done, fatal>>

(* Under the lock: from threadList_ to stoppedThreads_, and return.        *)
Leave(w) ==
  /\ where[w] = "leave" /\ ~locked
  /\ threadList' = threadList \ {w}
  /\ stoppedThreads' = Append(stoppedThreads, w)
  /\ Move(w, "gone")
  /\ UNCHANGED <<taskQueue, threadsToStop, isJoin, OwnerSide, task, observed,
                 done, fatal>>

Worker(w) ==
  \/ Start(w) \/ Take(w) \/ Poisoned(w) \/ RunTask(w) \/ TestToStop(w)
  \/ TestJoin(w) \/ CountDown(w) \/ CountUp(w) \/ Leave(w)

-----------------------------------------------------------------------------
(* The owner *)

WorkerSide == <<where, task, added, done, goesOn>>

Stopping == owner.op \in {"stop", "destroy"}

(* The threads the call wants to leave in the pool.                        *)
Wanted == IF owner.op = "setNumThreads" THEN owner.n ELSE 0

(* setNumThreads, join, stop, or the destructor, which begins with a stop. *)
(* A pool that stop() left is only destroyed, unless it goes on.           *)
BeginCall(op, n) ==
  /\ owner.at = "idle"
  /\ \/ op = "destroy"
     \/ op \in Ops /\ calls < MaxCalls /\ (owner.op = "stop" => goesOn)
  /\ owner' = [Idle EXCEPT !.at = "lock", !.op = op, !.n = n]
  /\ calls' = IF op = "destroy" THEN calls ELSE calls + 1
  /\ UNCHANGED <<pool, WorkerSide, locked, observing, observed, fatal>>

(* addThreads: threads that are already at work on the queue.              *)
AddThreads ==
  /\ owner.at = "lock" /\ ~locked
  /\ Wanted > Cardinality(threadList)
  /\ \E new \in SUBSET {w \in Workers : where[w] = "none"} :
       /\ Cardinality(new) = Wanted - Cardinality(threadList)
       /\ threadList' = threadList \cup new
       /\ where' = [w \in Workers |->
                      IF w \in new THEN "starting" ELSE where[w]]
       /\ owner' = [owner EXCEPT !.at = "startup", !.fresh = new]
  /\ locked' = TRUE
  /\ UNCHANGED <<taskQueue, threadsToStop, isJoin, stoppedThreads, task, calls,
                 goesOn, observing, observed, history>>

(* All startup batons are posted: tell the observers, release the lock.    *)
Startup ==
  /\ owner.at = "startup"
  /\ \A w \in owner.fresh : where[w] # "starting"
  /\ observed' = IF observing THEN observed \cup owner.fresh ELSE observed
  /\ locked' = FALSE
  /\ owner' = [owner EXCEPT !.at = "join", !.fresh = {}]
  /\ UNCHANGED <<pool, WorkerSide, calls, observing, fatal>>

(* removeThreads, unless setNumThreads has nothing to do: isJoin_ first.   *)
RemoveThreads ==
  /\ owner.at = "lock" /\ ~locked
  /\ Wanted <= Cardinality(threadList)
  /\ isJoin' = IF Cardinality(threadList) = Wanted
                  /\ owner.op = "setNumThreads" THEN isJoin ELSE ~Stopping
  /\ locked' = TRUE
  /\ owner' = [owner EXCEPT !.at = "count",
                 !.k = Cardinality(threadList) - Wanted,
                 !.owed = added \ done]
  /\ UNCHANGED <<taskQueue, threadsToStop, threadList, stoppedThreads,
                 WorkerSide, calls, observing, observed, fatal>>

(* stopThreads: count, then poison, one task at a time.                    *)
StopThreads ==
  /\ owner.at = "count"
  /\ threadsToStop' = threadsToStop + owner.k
  /\ owner' = [owner EXCEPT !.at = "poison"]
  /\ UNCHANGED <<taskQueue, isJoin, threadList, stoppedThreads, WorkerSide,
                 locked, calls, observing, observed, fatal>>

(* The queue throws when it is full: the lock is released and the call     *)
(* fails, which in the destructor terminates the process.                  *)
AddPoison ==
  /\ owner.at = "poison" /\ owner.i < owner.k
  /\ \/ /\ Len(taskQueue) < Capacity
        /\ taskQueue' = Append(taskQueue, Poison)
        /\ owner' = [owner EXCEPT !.i = @ + 1]
        /\ UNCHANGED locked
     \/ /\ Len(taskQueue) >= Capacity
        /\ owner' = [Idle EXCEPT !.at = IF owner.op = "destroy"
                                        THEN "terminated"
                                        ELSE IF goesOn THEN "idle"
                                        ELSE "failed"]
        /\ locked' = FALSE
        /\ UNCHANGED taskQueue
  /\ UNCHANGED <<threadsToStop, isJoin, threadList, stoppedThreads, WorkerSide,
                 calls, observing, observed, fatal>>

UnlockList ==
  /\ owner.at = "poison" /\ owner.i = owner.k
  /\ locked' = FALSE
  /\ owner' = [owner EXCEPT !.at = "join", !.i = 0]
  /\ UNCHANGED <<pool, WorkerSide, calls, observing, observed, fatal>>

(* joinStoppedThreads: take one and join it.                               *)
JoinStopped ==
  /\ owner.at = "join" /\ owner.i < owner.k
  /\ stoppedThreads # <<>>
  /\ stoppedThreads' = Tail(stoppedThreads)
  /\ where' = [where EXCEPT ![Head(stoppedThreads)] = "none"]
  /\ owner' = [owner EXCEPT !.i = @ + 1]
  /\ UNCHANGED <<taskQueue, threadsToStop, isJoin, threadList, task, added,
                 done, goesOn, locked, calls, observing, observed, fatal>>

(* The checks at the end of the call and of the destructor.                *)
Return ==
  /\ owner.at = "join" /\ owner.i = owner.k
  /\ fatal' = IF Cardinality(threadList) # Wanted \/ stoppedThreads # <<>>
              THEN "threads"
              ELSE IF owner.op = "destroy" /\ threadsToStop # 0
              THEN "destructor" ELSE fatal
  /\ owner' = [Idle EXCEPT
                 !.at = IF owner.op = "destroy" THEN "destroyed" ELSE "idle",
                 !.op = owner.op]
  /\ UNCHANGED <<pool, WorkerSide, locked, calls, observing, observed>>

(* The observer is told of every thread in the list, under the lock.       *)
AddObserver ==
  /\ owner.at = "idle" /\ ~observing /\ ~locked
  /\ observing' = TRUE
  /\ observed' = threadList
  /\ UNCHANGED <<pool, WorkerSide, locked, owner, calls, fatal>>

RemoveObserver ==
  /\ owner.at = "idle" /\ observing /\ ~locked
  /\ observing' = FALSE
  /\ observed' = observed \ threadList
  /\ UNCHANGED <<pool, WorkerSide, locked, owner, calls, fatal>>

Owner ==
  \/ AddThreads \/ Startup \/ RemoveThreads \/ StopThreads \/ AddPoison
  \/ UnlockList \/ JoinStopped \/ Return

(* After the destructor, a call that failed or an ACCCHECK, nobody need    *)
(* act.  The threads that a failed call leaves unjoined may use up Workers *)
(* (bound).                                                                *)
Stopped ==
  /\ \/ owner.at \in {"destroyed", "failed", "terminated"}
     \/ fatal # "none"
     \/ goesOn
  /\ UNCHANGED poolVars

(* isJoin_ is not initialized by the constructor.                          *)
PoolInit ==
  /\ taskQueue = <<>> /\ threadsToStop = 0 /\ isJoin \in BOOLEAN
  /\ threadList = {} /\ stoppedThreads = <<>> /\ locked = FALSE
  /\ where = [w \in Workers |-> "none"] /\ task = [w \in Workers |-> NoTask]
  /\ owner = Idle /\ calls = 0 /\ goesOn \in BOOLEAN
  /\ observing = FALSE /\ observed = {}
  /\ added = {} /\ done = {} /\ fatal = "none"

PoolNext ==
  \/ /\ Running
     /\ \/ \E w \in Workers : Worker(w)
        \/ \E t \in Tasks : Add(t)
        \/ \E op \in Ops \cup {"destroy"}, n \in 0..Cardinality(Workers) :
             (op # "setNumThreads" => n = 0) /\ BeginCall(op, n)
        \/ Owner \/ AddObserver \/ RemoveObserver
  \/ Stopped

PoolSpec == PoolInit /\ [][PoolNext]_poolVars

(* Workers and the owner keep running; tasks terminate.                    *)
FairPoolSpec ==
  /\ PoolSpec
  /\ WF_poolVars(Running /\ Owner)
  /\ \A w \in Workers : WF_poolVars(Running /\ Worker(w))

-----------------------------------------------------------------------------

WorkerPlaces == {"none", "starting", "take", "poisoned", "run", "test",
                 "testJoin", "countDown", "countUp", "leave", "gone"}

PoolTypeOK ==
  /\ taskQueue \in Seq(Tasks \cup {Poison}) /\ Len(taskQueue) <= Capacity
  /\ threadsToStop \in Int /\ isJoin \in BOOLEAN
  /\ threadList \subseteq Workers /\ stoppedThreads \in Seq(Workers)
  /\ where \in [Workers -> WorkerPlaces]
  /\ task \in [Workers -> Tasks \cup {Poison, NoTask}]
  /\ observed \subseteq Workers
  /\ done \subseteq added /\ added \subseteq Tasks

(* No ACCCHECK fails: a poison task is only met by a thread that is to     *)
(* stop, a call leaves the threads it wants, and the destructor finds no   *)
(* thread still to be stopped.  An owner that goes on after stop() or a    *)
(* call that threw may meet one.                                           *)
ChecksHold == goesOn \/ fatal = "none"

(* join(), and setNumThreads(0), run every task added before them, if no   *)
(* earlier call threw or was a stop().                                     *)
JoinRunsEverything == [][
  owner.at = "join" /\ owner'.at = "idle" /\ owner.k > 0
    /\ ~goesOn /\ ~Stopping /\ Wanted = 0
  => owner.owed \subseteq done]_poolVars

(* An observer knows exactly the threads of the pool between calls.  After *)
(* stop() it may not: a thread that leaves after its task tells nobody.    *)
ObserverIsCurrent ==
  owner.at = "idle" /\ observing /\ ~goesOn /\ owner.op # "stop"
    => observed = threadList

(* Calls return: nobody waits for a thread that will not stop, unless an   *)
(* earlier call threw or was a stop().                                     *)
CallReturns ==
  (owner.at # "idle" /\ ~goesOn) ~>
    owner.at \in {"idle", "destroyed", "failed", "terminated"}

(* No more threads leave than stopThreads was asked to stop, even when     *)
(* more of them see threadsToStop_ above zero: the others count it up      *)
(* again and stay.                                                         *)
StopsNoMoreThanAsked == fatal = "none" =>
  threadsToStop + Cardinality({w \in Workers : where[w] = "countUp"}) >= 0

(* The pool's own books, and what it tells its observers, are right.       *)
PoolSound ==
  PoolTypeOK /\ ChecksHold /\ StopsNoMoreThanAsked /\ ObserverIsCurrent

(* "ACCCHECK(threadsToStop_-- > 0)" in threadRun.                          *)
PoisonIsExpected == fatal # "poison"

(* "stop() will finish all outstanding tasks at exit."                     *)
StopFinishesTasks == [][
  owner.at = "join" /\ owner'.at = "idle" /\ owner.op = "stop"
    => owner.owed \subseteq done]_poolVars

-----------------------------------------------------------------------------
(***************************************************************************)
(* Proofs, for any finite set of threads and any tasks, calls and          *)
(* capacity.  What the pool owes is a number: threadsToStop_, with those   *)
(* threads that have taken one too many off it and will put it back.  It   *)
(* is as many threads as the call under way still waits for and are not    *)
(* yet leaving.                                                            *)
(***************************************************************************)

OwnerPlaces == {"idle", "lock", "startup", "count", "poison", "join",
                "destroyed", "failed", "terminated"}
OwnerType ==
  [at : OwnerPlaces, op : Ops \cup {"none", "destroy"}, n : Nat, k : Nat,
   i : Nat, fresh : SUBSET Workers, owed : SUBSET Tasks]

OwnerOK(o) ==
  /\ o \in OwnerType /\ o.i <= o.k
  /\ o.at \in {"idle", "lock", "startup"} => o.k = 0
  /\ o.at # "startup" => o.fresh = {}
  /\ o.at = "count" => o.i = 0

Types == PoolTypeOK /\ OwnerOK(owner) /\ goesOn \in BOOLEAN

(* The threads at place p of threadRun, where f says where they are; the   *)
(* poison in the queue q.                                                  *)
Those(f, p) == {w \in Workers : f[w] = p}
Many(f, p) == Cardinality(Those(f, p))
PoisonAt(q) == {j \in 1..Len(q) : q[j] = Poison}
Poisons(q) == Cardinality(PoisonAt(q))

Debt == threadsToStop + Many(where, "countUp")

(* threadList_ has the threads that run, stoppedThreads_ those that have   *)
(* returned and are not yet joined.                                        *)
Listed ==
  /\ threadList = {w \in Workers : where[w] \notin {"none", "gone"}}
  /\ \A j \in 1..Len(stoppedThreads) : where[stoppedThreads[j]] = "gone"
  /\ \A j, l \in 1..Len(stoppedThreads) :
       stoppedThreads[j] = stoppedThreads[l] => j = l

(* No task is lost.                                                        *)
Runs(x) == \E w \in Workers : where[w] = "run" /\ task[w] = x
Kept ==
  /\ \A j \in 1..Len(taskQueue) : taskQueue[j] \in added \cup {Poison}
  /\ \A w \in Workers : where[w] = "run" => task[w] \in added
  /\ \A x \in added :
       x \in done \/ Runs(x) \/ \E j \in 1..Len(taskQueue) : taskQueue[j] = x

(* The threads that the owner still waits for.                             *)
Due == IF owner.at = "poison" THEN owner.k
       ELSE IF owner.at = "join" THEN owner.k - owner.i ELSE 0

(* The poison that the owner has still to add.                             *)
Pending == IF owner.at = "poison" THEN owner.k - owner.i ELSE 0

Settled ==
  owner.at \notin {"failed", "terminated"} =>
    /\ Debt + Many(where, "leave") + Len(stoppedThreads) = Due
    /\ owner.fresh \subseteq threadList
    /\ owner.at \in {"startup", "count"} =>
         Cardinality(threadList) = Wanted + owner.k
    /\ owner.at \in {"poison", "join"} =>
         Cardinality(threadList) = Wanted + Debt + Many(where, "leave")

(* Before stop(): only poison makes a thread leave, and there is no more   *)
(* of it than threads are asked to.                                        *)
Joining ==
  /\ Those(where, "countDown") = {} /\ Those(where, "countUp") = {}
  /\ isJoin \/ /\ Those(where, "testJoin") = {} /\ threadsToStop = 0
               /\ owner.at = "count" => owner.k = 0
  /\ threadsToStop >= Poisons(taskQueue) + Many(where, "poisoned") + Pending
  /\ observing =>
       observed = (threadList \ Those(where, "leave")) \ owner.fresh

(* From stop() on every thread is asked to leave.                          *)
Ending ==
  IF owner.at = "count"
  THEN /\ Those(where, "poisoned") = {}
       /\ threadList = {} \/ Poisons(taskQueue) = 0
  ELSE Cardinality(threadList) = Debt + Many(where, "leave")

Open ==
  /\ owner.at \in {"startup", "count", "poison", "join"} => ~Stopping
  /\ owner.at = "idle" => owner.op # "stop"
  /\ owner.at # "destroyed"
Closed ==
  \/ owner.at \in {"count", "poison", "join"} /\ Stopping
  \/ owner.at = "idle" /\ owner.op = "stop"
  \/ owner.at = "lock" /\ owner.op = "destroy"
  \/ owner.at \in {"destroyed", "failed"}

Mode ==
  \/ Joining /\ Open
  \/ Ending /\ Closed
  \/ owner.at = "terminated"

(* What a join owes is done, is run, or is ahead of poison in the queue.   *)
Ahead(x) == \E j \in 1..Len(taskQueue) :
  /\ taskQueue[j] = x
  /\ \/ owner.at \in {"count", "poison"} /\ owner.i = 0
     \/ \E l \in 1..Len(taskQueue) : j < l /\ taskQueue[l] = Poison
Owing ==
  owner.at \in {"count", "poison", "join"} /\ ~Stopping /\ owner.k > 0 =>
    \A x \in owner.owed : x \in done \/ Runs(x) \/ Ahead(x)

PoolInv ==
  /\ Types /\ Listed /\ Kept /\ (fatal = "none" => Debt >= 0)
  /\ ~goesOn => fatal = "none" /\ Settled /\ Mode /\ Owing

-----------------------------------------------------------------------------
(* Counting *)

(* There are finitely many threads anywhere.                               *)
LEMMA ManyType ==
  ASSUME NEW f, NEW p
  PROVE  /\ IsFiniteSet(Those(f, p)) /\ Many(f, p) \in Nat
         /\ Many(f, p) = 0 <=> Those(f, p) = {}
<1>1. Those(f, p) \in SUBSET Workers
  BY DEF Those
<1>2. IsFiniteSet(Those(f, p))
  BY <1>1, PoolAssumption, FS_Subset
<1> QED  BY <1>2, FS_CardinalityType, FS_EmptySet DEF Many

(* Thread w goes from place a to place b.                                  *)
Moves(f, w, a, b, g) ==
  /\ w \in Workers /\ f \in [Workers -> WorkerPlaces] /\ b \in WorkerPlaces
  /\ f[w] = a /\ a # b /\ g = [f EXCEPT ![w] = b]

LEMMA OneMoves ==
  ASSUME NEW f, NEW w, NEW a, NEW b, NEW g, Moves(f, w, a, b, g)
  PROVE  /\ Many(g, a) = Many(f, a) - 1 /\ Many(g, b) = Many(f, b) + 1
         /\ Many(f, a) > 0
         /\ Those(g, a) = Those(f, a) \ {w}
         /\ Those(g, b) = Those(f, b) \cup {w}
         /\ \A p : p # a /\ p # b =>
              Those(g, p) = Those(f, p) /\ Many(g, p) = Many(f, p)
<1>1. /\ w \in Workers /\ f[w] = a /\ a # b /\ g[w] = b
      /\ \A v \in Workers : v # w => g[v] = f[v]
  BY DEF Moves
<1>2. /\ Those(g, a) = Those(f, a) \ {w} /\ w \in Those(f, a)
      /\ Those(g, b) = Those(f, b) \cup {w} /\ w \notin Those(f, b)
  BY <1>1 DEF Those
<1>3. \A p : p # a /\ p # b => Those(g, p) = Those(f, p)
  BY <1>1 DEF Those
<1>4. /\ Cardinality(Those(f, a) \ {w}) = Cardinality(Those(f, a)) - 1
      /\ Cardinality(Those(f, b) \cup {w}) = Cardinality(Those(f, b)) + 1
  BY Zenon, <1>2, ManyType, FS_AddElement, FS_RemoveElement
<1>5. Many(f, a) # 0 /\ Many(f, a) \in Nat
  BY <1>2, ManyType
<1> QED  BY <1>2, <1>3, <1>4, <1>5 DEF Many

(* The poison in a queue, when one is taken from it or added to it.        *)
LEMMA PoisonType ==
  ASSUME NEW q, NEW S, q \in Seq(S)
  PROVE  /\ IsFiniteSet(PoisonAt(q)) /\ Poisons(q) \in Nat
         /\ Poisons(q) = 0 <=> \A j \in 1..Len(q) : q[j] # Poison
<1>1. Len(q) \in Nat /\ PoisonAt(q) \in SUBSET (1..Len(q))
  BY DEF PoisonAt
<1>2. IsFiniteSet(1..Len(q))
  BY <1>1, FS_Interval
<1>3. IsFiniteSet(PoisonAt(q))
  BY <1>1, <1>2, FS_Subset
<1>4. PoisonAt(q) = {} <=> \A j \in 1..Len(q) : q[j] # Poison
  BY DEF PoisonAt
<1> QED  BY <1>3, <1>4, FS_CardinalityType, FS_EmptySet DEF Poisons

LEMMA PoisonAppend ==
  ASSUME NEW q, NEW S, q \in Seq(S), NEW x \in S
  PROVE  Poisons(Append(q, x)) =
           IF x = Poison THEN Poisons(q) + 1 ELSE Poisons(q)
<1>1. Len(q) \in Nat /\ Len(Append(q, x)) = Len(q) + 1
      /\ Append(q, x)[Len(q) + 1] = x
      /\ \A j \in 1..Len(q) : Append(q, x)[j] = q[j]
  OBVIOUS
<1>2. PoisonAt(Append(q, x)) =
        IF x = Poison THEN PoisonAt(q) \cup {Len(q) + 1} ELSE PoisonAt(q)
  BY <1>1 DEF PoisonAt
<1>3. Len(q) + 1 \notin PoisonAt(q)
  BY <1>1 DEF PoisonAt
<1> QED  BY Zenon, <1>2, <1>3, PoisonType, FS_AddElement DEF Poisons

LEMMA PoisonTail ==
  ASSUME NEW q, NEW S, q \in Seq(S), q # <<>>
  PROVE  Poisons(Tail(q)) =
           IF Head(q) = Poison THEN Poisons(q) - 1 ELSE Poisons(q)
<1>1. /\ Len(q) \in Nat /\ Len(q) > 0 /\ Len(Tail(q)) = Len(q) - 1
      /\ Head(q) = q[1] /\ Tail(q) \in Seq(S)
      /\ \A j \in 1..Len(Tail(q)) : Tail(q)[j] = q[j + 1]
  OBVIOUS
<1> DEFINE rest == PoisonAt(q) \ {1}
           f == [j \in PoisonAt(Tail(q)) |-> j + 1]
<1>2. \A j \in PoisonAt(Tail(q)) : j \in Nat /\ j + 1 \in rest
  BY <1>1 DEF PoisonAt
<1>3. \A l \in rest : l - 1 \in PoisonAt(Tail(q)) /\ l \in Nat
  BY <1>1 DEF PoisonAt
<1> HIDE DEF rest
<1>4. f \in Bijection(PoisonAt(Tail(q)), rest)
  <2>1. f \in [PoisonAt(Tail(q)) -> rest]
    BY <1>2
  <2>2. \A i, j \in PoisonAt(Tail(q)) : f[i] = f[j] => i = j
    BY <1>2
  <2>3. \A l \in rest : f[l - 1] = l
    BY <1>3
  <2> HIDE DEF f
  <2> QED  BY <1>3, <2>1, <2>2, <2>3
           DEF Bijection, Injection, Surjection, IsInjective
<1>5. Cardinality(rest) = Poisons(Tail(q))
  <2>1. IsFiniteSet(PoisonAt(Tail(q)))
    BY Zenon, <1>1, PoisonType
  <2> HIDE DEF f
  <2> QED  BY <1>4, <2>1, FS_Bijection DEF ExistsBijection, Poisons
<1>6. 1 \in PoisonAt(q) <=> Head(q) = Poison
  BY <1>1 DEF PoisonAt
<1> QED  BY Zenon, <1>5, <1>6, PoisonType, FS_RemoveElement DEF Poisons, rest

-----------------------------------------------------------------------------
(* Types, lists and tasks, whatever the owner does *)

LEMMA WorkerTypes ==
  ASSUME Types, Kept, NEW w \in Workers, Worker(w)
  PROVE  Types'
<1> USE DEF Types, PoolTypeOK, WorkerPlaces, Move, pool, OwnerSide
<1>1. CASE Start(w)
  BY <1>1 DEF Start
<1>2. CASE Take(w)
  <2>1. /\ Tail(taskQueue) \in Seq(Tasks \cup {Poison})
        /\ Len(Tail(taskQueue)) <= Capacity
        /\ Head(taskQueue) \in Tasks \cup {Poison}
    BY <1>2, PoolAssumption DEF Take
  <2> QED  BY <1>2, <2>1 DEF Take
<1>3. CASE Poisoned(w)
  BY <1>3 DEF Poisoned
<1>4. CASE RunTask(w)
  BY <1>4 DEF RunTask, Kept
<1>5. CASE TestToStop(w)
  BY <1>5 DEF TestToStop
<1>6. CASE TestJoin(w)
  BY <1>6 DEF TestJoin
<1>7. CASE CountDown(w)
  BY <1>7 DEF CountDown
<1>8. CASE CountUp(w)
  BY <1>8 DEF CountUp
<1>9. CASE Leave(w)
  BY <1>9 DEF Leave
<1> QED  BY Zenon, <1>1, <1>2, <1>3, <1>4, <1>5, <1>6, <1>7, <1>8, <1>9
         DEF Worker

(* How many threads the owner wants, and how many there are.               *)
LEMMA WantedType ==
  ASSUME Types
  PROVE  /\ Wanted \in Nat /\ Cardinality(threadList) \in Nat
         /\ IsFiniteSet(threadList)
         /\ Cardinality(threadList) = 0 <=> threadList = {}
         /\ Wanted > 0 => owner.op = "setNumThreads"
<1>1. owner.n \in Nat /\ threadList \in SUBSET Workers
  BY DEF Types, PoolTypeOK, OwnerOK, OwnerType
<1>2. IsFiniteSet(threadList)
  BY <1>1, PoolAssumption, FS_Subset
<1> QED  BY <1>1, <1>2, FS_CardinalityType, FS_EmptySet DEF Wanted

(* The owner's record, step by step: o is at place a of the same call.     *)
Became(o, a, k, i, s) ==
  /\ OwnerOK(o) /\ o.at = a /\ o.op = owner.op /\ o.n = owner.n
  /\ o.k = k /\ o.i = i /\ o.owed = s

LEMMA OwnerPlace ==
  ASSUME OwnerOK(owner)
  PROVE  /\ {"idle", "lock", "startup", "count", "poison", "join"}
              \subseteq OwnerPlaces
         /\ {"destroyed", "failed", "terminated"} \subseteq OwnerPlaces
         /\ owner \in OwnerType
BY DEF OwnerPlaces, OwnerOK

LEMMA OwnerStartup ==
  ASSUME OwnerOK(owner), NEW o, NEW new \in SUBSET Workers, owner.at = "lock",
         o = [owner EXCEPT !.at = "startup", !.fresh = new]
  PROVE  /\ OwnerOK(o) /\ o.at = "startup" /\ o.fresh = new
         /\ o.op = owner.op /\ o.n = owner.n /\ o.k = 0 /\ o.i = 0
<1>1. o = [at |-> "startup", op |-> owner.op, n |-> owner.n, k |-> owner.k,
           i |-> owner.i, fresh |-> new, owed |-> owner.owed]
  BY Zenon DEF OwnerOK, OwnerType
<1>2. o \in OwnerType
  BY OwnerPlace, <1>1 DEF OwnerType
<1> QED  BY OwnerPlace, <1>1, <1>2 DEF OwnerOK, OwnerType

LEMMA OwnerStarted ==
  ASSUME OwnerOK(owner), NEW o, o = [owner EXCEPT !.at = "join", !.fresh = {}]
  PROVE  Became(o, "join", owner.k, owner.i, owner.owed)
<1>1. o = [at |-> "join", op |-> owner.op, n |-> owner.n, k |-> owner.k,
           i |-> owner.i, fresh |-> {}, owed |-> owner.owed]
  BY Zenon DEF OwnerOK, OwnerType
<1>2. o \in OwnerType
  BY OwnerPlace, <1>1 DEF OwnerType
<1> QED  BY OwnerPlace, <1>1, <1>2 DEF Became, OwnerOK, OwnerType

LEMMA OwnerCount ==
  ASSUME OwnerOK(owner), NEW o, NEW k \in Nat, NEW s \in SUBSET Tasks,
         owner.at = "lock",
         o = [owner EXCEPT !.at = "count", !.k = k, !.owed = s]
  PROVE  Became(o, "count", k, 0, s)
<1>1. o = [at |-> "count", op |-> owner.op, n |-> owner.n, k |-> k,
           i |-> owner.i, fresh |-> owner.fresh, owed |-> s]
  BY Zenon DEF OwnerOK, OwnerType
<1>2. o \in OwnerType
  BY OwnerPlace, <1>1 DEF OwnerType
<1> QED  BY OwnerPlace, <1>1, <1>2 DEF Became, OwnerOK, OwnerType

LEMMA OwnerPoison ==
  ASSUME OwnerOK(owner), NEW o, owner.at = "count",
         o = [owner EXCEPT !.at = "poison"]
  PROVE  Became(o, "poison", owner.k, 0, owner.owed)
<1>1. o = [at |-> "poison", op |-> owner.op, n |-> owner.n, k |-> owner.k,
           i |-> owner.i, fresh |-> owner.fresh, owed |-> owner.owed]
  BY DEF OwnerOK, OwnerType
<1>2. o \in OwnerType
  BY OwnerPlace, <1>1 DEF OwnerType
<1> QED  BY OwnerPlace, <1>1, <1>2 DEF Became, OwnerOK, OwnerType

LEMMA OwnerOneOn ==
  ASSUME OwnerOK(owner), NEW o, owner.at \in {"poison", "join"},
         owner.i < owner.k,
         o = [owner EXCEPT !.i = @ + 1]
  PROVE  Became(o, owner.at, owner.k, owner.i + 1, owner.owed)
<1>1. o = [at |-> owner.at, op |-> owner.op, n |-> owner.n, k |-> owner.k,
           i |-> owner.i + 1, fresh |-> owner.fresh, owed |-> owner.owed]
  BY DEF OwnerOK, OwnerType
<1>2. o \in OwnerType
  BY OwnerPlace, <1>1 DEF OwnerType
<1> QED  BY OwnerPlace, <1>1, <1>2 DEF Became, OwnerOK, OwnerType

LEMMA OwnerUnlock ==
  ASSUME OwnerOK(owner), NEW o, owner.at = "poison",
         o = [owner EXCEPT !.at = "join", !.i = 0]
  PROVE  Became(o, "join", owner.k, 0, owner.owed)
<1>1. o = [at |-> "join", op |-> owner.op, n |-> owner.n, k |-> owner.k,
           i |-> 0, fresh |-> owner.fresh, owed |-> owner.owed]
  BY Zenon DEF OwnerOK, OwnerType
<1>2. o \in OwnerType
  BY OwnerPlace, <1>1 DEF OwnerType
<1> QED  BY OwnerPlace, <1>1, <1>2 DEF Became, OwnerOK, OwnerType

LEMMA OwnerThrows ==
  ASSUME OwnerOK(owner), NEW o, NEW a \in {"terminated", "idle", "failed"},
         o = [Idle EXCEPT !.at = a]
  PROVE  OwnerOK(o) /\ o.at = a /\ o.op = "none"
<1> DEFINE r == [at |-> a, op |-> "none", n |-> 0, k |-> 0, i |-> 0,
                 fresh |-> {}, owed |-> {}]
<1>1. o = r
  BY DEF Idle
<1>2. r \in OwnerType
  <2>1. a \in OwnerPlaces /\ owner.op \in Ops \cup {"none", "destroy"}
    BY OwnerPlace DEF OwnerType
  <2> QED  BY <2>1 DEF OwnerType
<1>3. /\ r.at = a /\ r.op = "none" /\ r.n = 0 /\ r.k = 0 /\ r.i = 0
      /\ r.fresh = {}
  OBVIOUS
<1> HIDE DEF r
<1>4. OwnerOK(r)
  BY <1>2, <1>3 DEF OwnerOK
<1> QED  BY Zenon, <1>1, <1>3, <1>4

LEMMA OwnerReturns ==
  ASSUME OwnerOK(owner), NEW o, NEW a \in {"destroyed", "idle"},
         o = [Idle EXCEPT !.at = a, !.op = owner.op]
  PROVE  OwnerOK(o) /\ o.at = a /\ o.op = owner.op
<1> DEFINE r == [at |-> a, op |-> owner.op, n |-> 0, k |-> 0, i |-> 0,
                 fresh |-> {}, owed |-> {}]
<1>1. o = r
  BY Zenon DEF Idle
<1>2. r \in OwnerType
  <2>1. a \in OwnerPlaces /\ owner.op \in Ops \cup {"none", "destroy"}
    BY OwnerPlace DEF OwnerType
  <2> QED  BY <2>1 DEF OwnerType
<1>3. /\ r.at = a /\ r.op = owner.op /\ r.n = 0 /\ r.k = 0 /\ r.i = 0
      /\ r.fresh = {}
  OBVIOUS
<1> HIDE DEF r
<1>4. OwnerOK(r)
  BY <1>2, <1>3 DEF OwnerOK
<1> QED  BY Zenon, <1>1, <1>3, <1>4

LEMMA OwnerBegins ==
  ASSUME OwnerOK(owner), NEW o, NEW op \in Ops \cup {"destroy"}, NEW n \in Nat,
         o = [Idle EXCEPT !.at = "lock", !.op = op, !.n = n]
  PROVE  OwnerOK(o) /\ o.at = "lock" /\ o.op = op /\ o.n = n
<1> DEFINE r == [at |-> "lock", op |-> op, n |-> n, k |-> 0, i |-> 0,
                 fresh |-> {}, owed |-> {}]
<1>1. o = r
  BY Zenon DEF Idle
<1>2. r \in OwnerType
  <2>1. "lock" \in OwnerPlaces /\ owner.op \in Ops \cup {"none", "destroy"}
    BY OwnerPlace DEF OwnerType
  <2> QED  BY <2>1 DEF OwnerType
<1>3. /\ r.at = "lock" /\ r.op = op /\ r.n = n /\ r.k = 0 /\ r.i = 0
      /\ r.fresh = {}
  OBVIOUS
<1> HIDE DEF r
<1>4. OwnerOK(r)
  BY <1>2, <1>3 DEF OwnerOK
<1> QED  BY Zenon, <1>1, <1>3, <1>4

LEMMA OwnerTypes ==
  ASSUME Types, Owner
  PROVE  Types'
<1>0. /\ PoolTypeOK /\ OwnerOK(owner)
      /\ PoolTypeOK' /\ OwnerOK(owner)' /\ goesOn' = goesOn => Types'
  BY DEF Types
<1>1. CASE AddThreads
  <2>1. PICK new \in SUBSET {w \in Workers : where[w] = "none"} :
          /\ threadList' = threadList \cup new
          /\ where' = [w \in Workers |->
                         IF w \in new THEN "starting" ELSE where[w]]
          /\ owner' = [owner EXCEPT !.at = "startup", !.fresh = new]
    BY Zenon, <1>1 DEF AddThreads
  <2>2. OwnerOK(owner')
    BY Zenon, <1>0, <1>1, <2>1, OwnerStartup DEF AddThreads
  <2> QED  BY Zenon, <1>0, <1>1, <2>1, <2>2
           DEF AddThreads, PoolTypeOK, WorkerPlaces, history
<1>2. CASE Startup
  <2>1. OwnerOK(owner')
    BY Zenon, <1>0, <1>2, OwnerStarted DEF Startup, Became
  <2>2. owner.fresh \subseteq Workers
    BY <1>0 DEF OwnerOK, OwnerType
  <2> QED  BY Zenon, <1>0, <1>2, <2>1, <2>2
              DEF Startup, PoolTypeOK, pool, WorkerSide
<1>3. CASE RemoveThreads
  <2>1. Cardinality(threadList) - Wanted \in Nat
    BY <1>3, WantedType DEF RemoveThreads
  <2>2. added \ done \in SUBSET Tasks
    BY <1>0 DEF PoolTypeOK
  <2>3. OwnerOK(owner')
    BY Zenon, <1>0, <1>3, <2>1, <2>2, OwnerCount DEF RemoveThreads, Became
  <2> QED  BY Zenon, <1>0, <1>3, <2>3 DEF RemoveThreads, PoolTypeOK, WorkerSide
<1>4. CASE StopThreads
  <2>1. OwnerOK(owner') /\ owner.k \in Nat
    BY <1>0, <1>4, OwnerPoison DEF Became, StopThreads, OwnerOK, OwnerType
  <2> QED  BY <1>0, <1>4, <2>1 DEF StopThreads, PoolTypeOK, WorkerSide
<1>5. CASE AddPoison
  <2>1. CASE taskQueue' = Append(taskQueue, Poison) /\ Len(taskQueue) < Capacity
             /\ owner' = [owner EXCEPT !.i = @ + 1]
    <3>1. OwnerOK(owner')
      BY <1>0, <1>5, <2>1, OwnerOneOn DEF AddPoison, Became
    <3> QED  BY <1>0, <1>5, <2>1, <3>1, PoolAssumption
             DEF AddPoison, PoolTypeOK, WorkerSide
  <2>2. CASE UNCHANGED taskQueue /\ \E a \in {"terminated", "idle", "failed"} :
               owner' = [Idle EXCEPT !.at = a]
    <3>1. OwnerOK(owner')
      BY Zenon, <1>0, <2>2, OwnerThrows
    <3> QED  BY <1>0, <1>5, <2>2, <3>1 DEF AddPoison, PoolTypeOK, WorkerSide
  <2> QED  BY <1>5, <2>1, <2>2 DEF AddPoison
<1>6. CASE UnlockList
  <2>1. OwnerOK(owner')
    BY <1>0, <1>6, OwnerUnlock DEF UnlockList, Became
  <2> QED  BY <1>0, <1>6, <2>1 DEF UnlockList, PoolTypeOK, pool, WorkerSide
<1>7. CASE JoinStopped
  <2>1. OwnerOK(owner')
    BY <1>0, <1>7, OwnerOneOn DEF JoinStopped, Became
  <2>2. Tail(stoppedThreads) \in Seq(Workers)
    BY <1>0, <1>7 DEF JoinStopped, PoolTypeOK
  <2> QED  BY <1>0, <1>7, <2>1, <2>2
           DEF JoinStopped, PoolTypeOK, WorkerPlaces
<1>8. CASE Return
  <2>1. \E a \in {"destroyed", "idle"} :
          owner' = [Idle EXCEPT !.at = a, !.op = owner.op]
    BY Zenon, <1>8 DEF Return
  <2>2. OwnerOK(owner')
    BY Zenon, <1>0, <2>1, OwnerReturns
  <2> QED  BY <1>0, <1>8, <2>2 DEF Return, PoolTypeOK, pool, WorkerSide
<1> QED  BY Zenon, <1>1, <1>2, <1>3, <1>4, <1>5, <1>6, <1>7, <1>8 DEF Owner

LEMMA OtherTypes ==
  ASSUME Types,
         \/ \E t \in Tasks : Add(t)
         \/ \E op \in Ops \cup {"destroy"}, n \in 0..Cardinality(Workers) :
              BeginCall(op, n)
         \/ AddObserver \/ RemoveObserver
  PROVE  Types'
<1>0. /\ PoolTypeOK /\ OwnerOK(owner)
      /\ PoolTypeOK' /\ OwnerOK(owner)' /\ goesOn' = goesOn => Types'
  BY DEF Types
<1>1. ASSUME NEW t \in Tasks, Add(t) PROVE Types'
  BY <1>0, <1>1, PoolAssumption DEF Add, PoolTypeOK
<1>2. ASSUME NEW op \in Ops \cup {"destroy"}, NEW n \in 0..Cardinality(Workers),
             BeginCall(op, n)
      PROVE  Types'
  <2>1. n \in Nat
    OBVIOUS
  <2>2. OwnerOK(owner')
    BY Zenon, <1>0, <1>2, <2>1, OwnerBegins DEF BeginCall
  <2> QED  BY Zenon, <1>0, <1>2, <2>2
              DEF BeginCall, PoolTypeOK, pool, WorkerSide
<1>3. CASE AddObserver
  BY <1>0, <1>3 DEF AddObserver, PoolTypeOK, pool, WorkerSide
<1>4. CASE RemoveObserver
  BY <1>0, <1>4 DEF RemoveObserver, PoolTypeOK, pool, WorkerSide
<1> QED  BY <1>1, <1>2, <1>3, <1>4


(* A step of a thread moves it, and it is one of threadList_.              *)
LEMMA WorkerMoves ==
  ASSUME Types, NEW w \in Workers, Worker(w)
  PROVE  /\ Leave(w) \/ UNCHANGED <<threadList, stoppedThreads>>
         /\ \E b \in WorkerPlaces :
              /\ Moves(where, w, where[w], b, where')
              /\ b # "none" /\ (b = "gone" <=> Leave(w))
         /\ where[w] \notin {"none", "gone"}
         /\ UNCHANGED <<isJoin, owner, goesOn, observing, added>>
<1>0. where \in [Workers -> WorkerPlaces]
  BY DEF Types, PoolTypeOK
<1> USE DEF Move, pool, OwnerSide, Moves, WorkerPlaces
<1>1. CASE Start(w)
  BY <1>0, <1>1 DEF Start, Leave
<1>2. CASE Take(w)
  BY Zenon, <1>0, <1>2 DEF Take, Leave
<1>3. CASE Poisoned(w)
  BY <1>0, <1>3 DEF Poisoned, Leave
<1>4. CASE RunTask(w)
  BY <1>0, <1>4 DEF RunTask, Leave
<1>5. CASE TestToStop(w)
  BY Zenon, <1>0, <1>5 DEF TestToStop, Leave
<1>6. CASE TestJoin(w)
  BY Zenon, <1>0, <1>6 DEF TestJoin, Leave
<1>7. CASE CountDown(w)
  BY Zenon, <1>0, <1>7 DEF CountDown, Leave
<1>8. CASE CountUp(w)
  BY <1>0, <1>8 DEF CountUp, Leave
<1>9. CASE Leave(w)
  BY <1>0, <1>9 DEF Leave
<1> QED  BY Zenon, <1>1, <1>2, <1>3, <1>4, <1>5, <1>6, <1>7, <1>8, <1>9
         DEF Worker

LEMMA WorkerListed ==
  ASSUME Types, Types', Listed, NEW w \in Workers, Worker(w)
  PROVE  Listed'
<1>0. /\ stoppedThreads \in Seq(Workers)
      /\ \A j \in 1..Len(stoppedThreads) : stoppedThreads[j] \in Workers
  BY DEF Types, PoolTypeOK
<1>1. PICK b \in WorkerPlaces :
        /\ Moves(where, w, where[w], b, where')
        /\ b # "none" /\ (b = "gone" <=> Leave(w))
  BY Zenon, WorkerMoves
<1>2. where[w] \notin {"none", "gone"} /\ where'[w] = b
      /\ \A v \in Workers : v # w => where'[v] = where[v]
  BY Zenon, <1>1, WorkerMoves DEF Moves
<1>3. CASE UNCHANGED <<threadList, stoppedThreads>> /\ ~Leave(w)
  <2>1. b \notin {"none", "gone"}
    BY <1>1, <1>3
  <2> QED  BY Zenon, <1>0, <1>2, <1>3, <2>1 DEF Listed
<1>4. CASE Leave(w)
  <2>1. /\ threadList' = threadList \ {w} /\ b = "gone"
        /\ stoppedThreads' = Append(stoppedThreads, w)
    BY Zenon, <1>1, <1>4 DEF Leave
  <2>2. threadList' = {v \in Workers : where'[v] \notin {"none", "gone"}}
    BY Zenon, <1>2, <2>1 DEF Listed
  <2>3. \A j \in 1..Len(stoppedThreads) : /\ stoppedThreads[j] # w
                                          /\ where[stoppedThreads[j]] = "gone"
    BY <1>2 DEF Listed
  <2>4. /\ Len(stoppedThreads') = Len(stoppedThreads) + 1
        /\ stoppedThreads'[Len(stoppedThreads) + 1] = w
        /\ \A j \in 1..Len(stoppedThreads) :
             stoppedThreads'[j] = stoppedThreads[j]
        /\ Len(stoppedThreads) \in Nat
    BY <1>0, <2>1
  <2>5. \A j \in 1..Len(stoppedThreads') : where'[stoppedThreads'[j]] = "gone"
    BY <1>0, <1>2, <2>1, <2>3, <2>4
  <2>6. \A j, l \in 1..Len(stoppedThreads') :
          stoppedThreads'[j] = stoppedThreads'[l] => j = l
    BY <2>3, <2>4 DEF Listed
  <2> QED  BY Zenon, <2>2, <2>5, <2>6 DEF Listed
<1> QED  BY Zenon, <1>3, <1>4, WorkerMoves

LEMMA OtherListed ==
  ASSUME Types, Listed, UNCHANGED <<where, threadList, stoppedThreads>>
  PROVE  Listed'
BY DEF Listed

LEMMA AddThreadsListed ==
  ASSUME Types, Listed, AddThreads
  PROVE  Listed'
<1>1. PICK new \in SUBSET {w \in Workers : where[w] = "none"} :
        /\ threadList' = threadList \cup new
        /\ where' = [w \in Workers |->
                       IF w \in new THEN "starting" ELSE where[w]]
  BY DEF AddThreads
<1>2. stoppedThreads' = stoppedThreads
      /\ \A j \in 1..Len(stoppedThreads) : stoppedThreads[j] \in Workers
  BY DEF AddThreads, Types, PoolTypeOK
<1> QED  BY <1>1, <1>2 DEF Listed

LEMMA JoinStoppedListed ==
  ASSUME Types, Listed, JoinStopped
  PROVE  Listed'
<1> DEFINE h == Head(stoppedThreads)
<1>1. /\ stoppedThreads \in Seq(Workers) /\ Len(stoppedThreads) > 0
      /\ h = stoppedThreads[1] /\ h \in Workers /\ where[h] = "gone"
      /\ Len(stoppedThreads) \in Nat
      /\ where \in [Workers -> WorkerPlaces]
  BY DEF Types, PoolTypeOK, JoinStopped, Listed
<1>2. /\ Len(stoppedThreads') = Len(stoppedThreads) - 1
      /\ \A j \in 1..Len(stoppedThreads') :
           /\ stoppedThreads'[j] = stoppedThreads[j + 1]
           /\ j + 1 \in 1..Len(stoppedThreads)
           /\ stoppedThreads[j + 1] \in Workers
  BY <1>1 DEF JoinStopped
<1>3. /\ where'[h] = "none" /\ \A v \in Workers : v # h => where'[v] = where[v]
      /\ threadList' = threadList
  BY <1>1 DEF JoinStopped
<1>4. \A j \in 1..Len(stoppedThreads') : stoppedThreads'[j] # h
  BY <1>1, <1>2 DEF Listed
<1>5. \A j \in 1..Len(stoppedThreads') : where'[stoppedThreads'[j]] = "gone"
  BY <1>2, <1>3, <1>4 DEF Listed
<1>6. \A j, l \in 1..Len(stoppedThreads') :
        stoppedThreads'[j] = stoppedThreads'[l] => j = l
  BY <1>2 DEF Listed
<1>7. threadList' = {v \in Workers : where'[v] \notin {"none", "gone"}}
  BY <1>1, <1>3 DEF Listed
<1> QED  BY Zenon, <1>5, <1>6, <1>7 DEF Listed


(* No task is lost in a step that neither takes, runs nor adds one.        *)
LEMMA QuietKept ==
  ASSUME Kept, UNCHANGED <<taskQueue, added, done>>,
         \A v \in Workers : where'[v] = "run" <=> where[v] = "run",
         \A v \in Workers : where[v] = "run" => task'[v] = task[v]
  PROVE  /\ Kept' /\ \A x : Runs(x)' <=> Runs(x)
<1>1. \A x : Runs(x)' <=> Runs(x)
  BY DEF Runs
<1>2. \A w \in Workers : where'[w] = "run" => task'[w] \in added'
  BY DEF Kept
<1> QED  BY Zenon, <1>1, <1>2 DEF Kept

(* The steps that are not quiet.                                           *)
LEMMA TakeKept ==
  ASSUME Types, Kept, NEW w \in Workers, Take(w)
  PROVE  /\ Kept'
         /\ \A x : x = Head(taskQueue) /\ x # Poison => Runs(x)'
         /\ \A x : Runs(x) => Runs(x)'
<1>1. /\ taskQueue \in Seq(Tasks \cup {Poison}) /\ Len(taskQueue) > 0
      /\ Len(taskQueue) \in Nat /\ Head(taskQueue) = taskQueue[1]
      /\ task \in [Workers -> Tasks \cup {Poison, NoTask}]
      /\ where \in [Workers -> WorkerPlaces]
  BY DEF Types, PoolTypeOK, Take
<1>2. /\ where[w] = "take" /\ task'[w] = taskQueue[1]
      /\ where'[w] = (IF taskQueue[1] = Poison THEN "poisoned" ELSE "run")
      /\ \A v \in Workers : v # w => where'[v] = where[v] /\ task'[v] = task[v]
      /\ added' = added /\ done' = done
  BY Zenon, <1>1 DEF Take, Move, OwnerSide
<1>3. /\ Len(taskQueue') = Len(taskQueue) - 1
      /\ \A j \in 1..Len(taskQueue') : /\ taskQueue'[j] = taskQueue[j + 1]
                                       /\ j + 1 \in 1..Len(taskQueue)
  BY <1>1 DEF Take
<1>4. \A x : x = Head(taskQueue) /\ x # Poison => Runs(x)'
  BY Zenon, <1>1, <1>2 DEF Runs
<1>5. \A x : Runs(x) => Runs(x)'
  BY Zenon, <1>2 DEF Runs
<1>6. \A j \in 1..Len(taskQueue') : taskQueue'[j] \in added' \cup {Poison}
  BY Zenon, <1>2, <1>3 DEF Kept
<1>7. \A v \in Workers : where'[v] = "run" => task'[v] \in added'
  <2>1. taskQueue[1] \in added \cup {Poison}
    BY <1>1 DEF Kept
  <2> QED  BY Zenon, <1>2, <2>1 DEF Kept
<1>8. ASSUME NEW x \in added, NEW j \in 1..Len(taskQueue), taskQueue[j] = x
      PROVE  Runs(x)' \/ \E l \in 1..Len(taskQueue') : taskQueue'[l] = x
  <2>1. CASE j = 1
    <3>1. x # Poison
      BY PoolAssumption DEF Types, PoolTypeOK
    <3> QED  BY Zenon, <1>1, <1>4, <1>8, <2>1, <3>1
  <2>2. CASE j # 1
    <3>1. j - 1 \in 1..Len(taskQueue') /\ taskQueue'[j - 1] = x
      BY <1>1, <1>3, <1>8, <2>2
    <3> QED  BY Zenon, <3>1
  <2> QED  BY Zenon, <2>1, <2>2
<1>9. \A x \in added' : x \in done' \/ Runs(x)'
                        \/ \E j \in 1..Len(taskQueue') : taskQueue'[j] = x
  <2>1. SUFFICES ASSUME NEW x \in added
                 PROVE  x \in done \/ Runs(x)'
                        \/ \E j \in 1..Len(taskQueue') : taskQueue'[j] = x
    BY Zenon, <1>2
  <2> QED  BY Zenon, <1>5, <1>8 DEF Kept
<1> QED  BY Zenon, <1>4, <1>5, <1>6, <1>7, <1>9 DEF Kept

LEMMA RunTaskKept ==
  ASSUME Types, Kept, NEW w \in Workers, RunTask(w)
  PROVE  Kept' /\ \A x : Runs(x) => x \in done' \/ Runs(x)'
<1>1. /\ task \in [Workers -> Tasks \cup {Poison, NoTask}]
      /\ where \in [Workers -> WorkerPlaces]
  BY DEF Types, PoolTypeOK
<1>2. /\ where[w] = "run" /\ where'[w] = "test" /\ done' = done \cup {task[w]}
      /\ \A v \in Workers : v # w => where'[v] = where[v] /\ task'[v] = task[v]
      /\ added' = added /\ taskQueue' = taskQueue
  BY <1>1 DEF RunTask, Move, OwnerSide, pool
<1>3. \A x : Runs(x) => x \in done' \/ Runs(x)'
  BY Zenon, <1>2 DEF Runs
<1>4. \A v \in Workers : where'[v] = "run" => task'[v] \in added'
  BY Zenon, <1>2 DEF Kept
<1>5. done \subseteq done'
  BY <1>2
<1> QED  BY Zenon, <1>2, <1>3, <1>4, <1>5 DEF Kept

LEMMA AppendKept ==
  ASSUME Types, Kept, UNCHANGED <<where, task, done>>, NEW x,
         taskQueue' = Append(taskQueue, x),
         \/ x = Poison /\ added' = added
         \/ x \in Tasks /\ added' = added \cup {x}
  PROVE  Kept' /\ \A y : Runs(y)' <=> Runs(y)
<1>1. \A y : Runs(y)' <=> Runs(y)
  BY DEF Runs
<1>2. /\ Len(taskQueue) \in Nat /\ Len(taskQueue') = Len(taskQueue) + 1
      /\ taskQueue'[Len(taskQueue) + 1] = x
      /\ \A j \in 1..Len(taskQueue) : taskQueue'[j] = taskQueue[j]
  BY DEF Types, PoolTypeOK
<1>3. \A j \in 1..Len(taskQueue') : taskQueue'[j] \in added' \cup {Poison}
  BY <1>2 DEF Kept
<1>4. \A v \in Workers : where'[v] = "run" => task'[v] \in added'
  BY DEF Kept
<1>5. /\ \A j \in 1..Len(taskQueue) : j \in 1..Len(taskQueue')
      /\ Len(taskQueue) + 1 \in 1..Len(taskQueue')
  BY <1>2
<1>6. \A y \in added' : y \in added \/ y = x
  OBVIOUS
<1>7. \A y \in added' : y \in done' \/ Runs(y)'
                        \/ \E j \in 1..Len(taskQueue') : taskQueue'[j] = y
  BY Zenon, <1>1, <1>2, <1>5, <1>6 DEF Kept
<1> QED  BY Zenon, <1>1, <1>3, <1>4, <1>7 DEF Kept

LEMMA WorkerKept ==
  ASSUME Types, Kept, NEW w \in Workers, Worker(w)
  PROVE  /\ Kept'
         /\ \/ Take(w)
            \/ /\ taskQueue' = taskQueue
               /\ \A x : Runs(x) => x \in done' \/ Runs(x)'
         /\ done \subseteq done'
<1>1. CASE Take(w)
  BY Zenon, <1>1, TakeKept DEF Take
<1>2. CASE RunTask(w)
  <2>1. done \subseteq done' /\ taskQueue' = taskQueue
    BY <1>2 DEF RunTask, pool
  <2> QED  BY Zenon, <1>2, <2>1, RunTaskKept
<1>3. CASE ~Take(w) /\ ~RunTask(w)
  <2>0. /\ task \in [Workers -> Tasks \cup {Poison, NoTask}]
        /\ where \in [Workers -> WorkerPlaces]
    BY DEF Types, PoolTypeOK
  <2>1. /\ UNCHANGED <<taskQueue, added, done>>
        /\ where[w] # "run" /\ where'[w] # "run"
        /\ \A v \in Workers \ {w} : where'[v] = where[v] /\ task'[v] = task[v]
    BY <1>3, <2>0 DEF Worker, Start, Poisoned, TestToStop, TestJoin, CountDown,
                      CountUp, Leave, Move, OwnerSide, pool
  <2>2. /\ \A v \in Workers : where'[v] = "run" <=> where[v] = "run"
        /\ \A v \in Workers : where[v] = "run" => task'[v] = task[v]
    BY <2>1
  <2> QED  BY Zenon, <2>1, <2>2, QuietKept
<1> QED  BY Zenon, <1>1, <1>2, <1>3

-----------------------------------------------------------------------------
(* The books of the pool *)

(* The numbers that the books are about.                                   *)
LEMMA Numbers ==
  ASSUME Types
  PROVE  /\ threadsToStop \in Int /\ Debt \in Int
         /\ Many(where, "countUp") \in Nat /\ Many(where, "leave") \in Nat
         /\ Many(where, "poisoned") \in Nat /\ Poisons(taskQueue) \in Nat
         /\ Len(stoppedThreads) \in Nat /\ Cardinality(threadList) \in Nat
         /\ Wanted \in Nat /\ owner.k \in Nat /\ owner.i \in Nat
         /\ owner.i <= owner.k
<1>1. /\ threadsToStop \in Int /\ taskQueue \in Seq(Tasks \cup {Poison})
      /\ stoppedThreads \in Seq(Workers)
  BY DEF Types, PoolTypeOK
<1>2. owner.k \in Nat /\ owner.i \in Nat /\ owner.i <= owner.k
  BY DEF Types, OwnerOK, OwnerType
<1>3. Debt \in Int
  BY <1>1, ManyType DEF Debt
<1> QED  BY <1>1, <1>2, <1>3, ManyType, PoisonType, WantedType

LEMMA NumbersNext ==
  ASSUME Types'
  PROVE  /\ Debt' \in Int /\ Many(where', "leave") \in Nat
         /\ Cardinality(threadList') \in Nat /\ IsFiniteSet(threadList')
<1>1. threadsToStop' \in Int /\ threadList' \in SUBSET Workers
  BY DEF Types, PoolTypeOK
<1>2. IsFiniteSet(threadList')
  BY Zenon, <1>1, PoolAssumption, FS_Subset
<1>3. Debt' \in Int
  BY <1>1, ManyType DEF Debt
<1> QED  BY Zenon, <1>2, <1>3, ManyType, FS_CardinalityType

(* A thread that leaves is one less to stop, and one that only seemed to   *)
(* be asked to leave changes nothing.                                      *)
LEMMA Balanced ==
  ASSUME Types, Types', Listed, NEW w \in Workers, Worker(w)
  PROVE  /\ Debt' + Many(where', "leave") + Len(stoppedThreads') =
              Debt + Many(where, "leave") + Len(stoppedThreads)
         /\ Cardinality(threadList') - Debt' - Many(where', "leave") =
              Cardinality(threadList) - Debt - Many(where, "leave")
         /\ threadList' = threadList \/ Many(where, "leave") > 0
         /\ fatal' = "none" /\ (fatal = "none" => Debt >= 0) => Debt' >= 0
<1>0. where \in [Workers -> WorkerPlaces]
  BY DEF Types, PoolTypeOK
<1>n. /\ threadsToStop \in Int
      /\ Many(where, "countUp") \in Nat /\ Many(where, "leave") \in Nat
      /\ Len(stoppedThreads) \in Nat /\ Cardinality(threadList) \in Nat
      /\ Debt = threadsToStop + Many(where, "countUp")
      /\ Debt' = threadsToStop' + Many(where', "countUp")
  BY Zenon, Numbers DEF Debt
<1>1. ASSUME NEW b, Moves(where, w, where[w], b, where'),
             where[w] \notin {"countUp", "leave"}, b \notin {"countUp", "leave"},
             UNCHANGED <<threadsToStop, threadList, stoppedThreads, fatal>>
      PROVE  /\ Debt' = Debt /\ Many(where', "leave") = Many(where, "leave")
             /\ UNCHANGED <<threadList, stoppedThreads, fatal>>
  BY <1>1, <1>n, OneMoves
<1>2. CASE Start(w) \/ Take(w) \/ RunTask(w) \/ TestToStop(w) \/ TestJoin(w)
  <2>1. \E b : /\ Moves(where, w, where[w], b, where')
               /\ b \notin {"countUp", "leave"}
    BY Zenon, <1>0, <1>2
       DEF Start, Take, RunTask, TestToStop, TestJoin, Move, Moves,
                      WorkerPlaces
  <2>2. /\ where[w] \notin {"countUp", "leave"}
        /\ UNCHANGED <<threadsToStop, threadList, stoppedThreads, fatal>>
    BY <1>2 DEF Start, Take, RunTask, TestToStop, TestJoin, pool
  <2>3. /\ Debt' = Debt /\ Many(where', "leave") = Many(where, "leave")
        /\ UNCHANGED <<threadList, stoppedThreads, fatal>>
    BY Zenon, <1>1, <2>1, <2>2
  <2> QED  BY Zenon, <1>n, <2>3
<1>3. CASE Poisoned(w)
  <2>1. Moves(where, w, "poisoned", "leave", where')
    BY Zenon, <1>0, <1>3 DEF Poisoned, Move, Moves, WorkerPlaces
  <2>2. /\ Many(where', "leave") = Many(where, "leave") + 1
        /\ Many(where', "countUp") = Many(where, "countUp")
    BY <2>1, OneMoves
  <2>3. /\ threadsToStop' = threadsToStop - 1
        /\ UNCHANGED <<threadList, stoppedThreads>>
        /\ fatal' = "none" => threadsToStop > 0
    BY Zenon, <1>3 DEF Poisoned
  <2>4. fatal' = "none" => Debt' >= 0
    BY <1>n, <2>2, <2>3
  <2>5. /\ Debt' = Debt - 1
        /\ Many(where', "leave") = Many(where, "leave") + 1
        /\ UNCHANGED <<threadList, stoppedThreads>>
    BY <1>n, <2>2, <2>3
  <2>6. Debt' + Many(where', "leave") + Len(stoppedThreads') =
          Debt + Many(where, "leave") + Len(stoppedThreads)
    BY <1>n, <2>5
  <2>7. Cardinality(threadList') - Debt' - Many(where', "leave") =
          Cardinality(threadList) - Debt - Many(where, "leave")
    BY <1>n, <2>5
  <2>8. threadList' = threadList \/ Many(where, "leave") > 0
    BY Zenon, <1>n, <2>5
  <2> QED  BY Zenon, <2>4, <2>6, <2>7, <2>8
<1>4. CASE CountDown(w)
  <2>1. /\ threadsToStop' = threadsToStop - 1
        /\ UNCHANGED <<threadList, stoppedThreads, fatal>>
    BY <1>4 DEF CountDown
  <2>2. CASE threadsToStop - 1 >= 0
    <3>1. Moves(where, w, "countDown", "leave", where')
      BY Zenon, <1>0, <1>4, <2>2 DEF CountDown, Move, Moves, WorkerPlaces
    <3>2. /\ Many(where', "leave") = Many(where, "leave") + 1
          /\ Many(where', "countUp") = Many(where, "countUp")
      BY <3>1, OneMoves
    <3>3. Debt' >= 0
      BY <1>n, <2>1, <2>2, <3>2
    <3>4. /\ Debt' = Debt - 1
          /\ Many(where', "leave") = Many(where, "leave") + 1
          /\ UNCHANGED <<threadList, stoppedThreads>>
      BY <1>n, <2>1, <3>2
    <3>5. Debt' + Many(where', "leave") + Len(stoppedThreads') =
            Debt + Many(where, "leave") + Len(stoppedThreads)
      BY <1>n, <3>4
    <3>6. Cardinality(threadList') - Debt' - Many(where', "leave") =
            Cardinality(threadList) - Debt - Many(where, "leave")
      BY <1>n, <3>4
    <3>7. threadList' = threadList \/ Many(where, "leave") > 0
      BY Zenon, <1>n, <3>4
    <3> QED  BY Zenon, <3>3, <3>5, <3>6, <3>7
  <2>3. CASE ~(threadsToStop - 1 >= 0)
    <3>1. Moves(where, w, "countDown", "countUp", where')
      BY Zenon, <1>0, <1>4, <2>3 DEF CountDown, Move, Moves, WorkerPlaces
    <3>2. /\ Many(where', "leave") = Many(where, "leave")
          /\ Many(where', "countUp") = Many(where, "countUp") + 1
      BY <3>1, OneMoves
    <3> QED  BY <1>n, <2>1, <3>2
  <2> QED  BY Zenon, <2>2, <2>3
<1>5. CASE CountUp(w)
  <2>1. Moves(where, w, "countUp", "take", where')
    BY Zenon, <1>0, <1>5 DEF CountUp, Move, Moves, WorkerPlaces
  <2>2. /\ Many(where', "leave") = Many(where, "leave")
        /\ Many(where', "countUp") = Many(where, "countUp") - 1
    BY <2>1, OneMoves
  <2>3. /\ threadsToStop' = threadsToStop + 1
        /\ UNCHANGED <<threadList, stoppedThreads, fatal>>
    BY <1>5 DEF CountUp
  <2> QED  BY <1>n, <2>2, <2>3
<1>6. CASE Leave(w)
  <2>1. Moves(where, w, "leave", "gone", where')
    BY Zenon, <1>0, <1>6 DEF Leave, Move, Moves, WorkerPlaces
  <2>2. /\ Many(where', "leave") = Many(where, "leave") - 1
        /\ Many(where, "leave") > 0
        /\ Many(where', "countUp") = Many(where, "countUp")
    BY <2>1, OneMoves
  <2>3. /\ threadList' = threadList \ {w}
        /\ stoppedThreads' = Append(stoppedThreads, w)
        /\ UNCHANGED <<threadsToStop, fatal>>
    BY Zenon, <1>6 DEF Leave
  <2>4. w \in threadList
    BY Zenon, <1>6 DEF Leave, Listed
  <2>5. Cardinality(threadList') = Cardinality(threadList) - 1
    BY Zenon, <2>3, <2>4, WantedType, FS_RemoveElement
  <2>6. Len(stoppedThreads') = Len(stoppedThreads) + 1
    BY <2>3 DEF Types, PoolTypeOK
  <2>7. Debt' = Debt /\ fatal' = fatal
    BY <1>n, <2>2, <2>3
  <2>8. Debt' + Many(where', "leave") + Len(stoppedThreads') =
          Debt + Many(where, "leave") + Len(stoppedThreads)
    <3> DEFINE m == Many(where, "leave")
               l == Len(stoppedThreads)
    <3>1. /\ Debt' = Debt /\ Many(where', "leave") = m - 1
          /\ Len(stoppedThreads') = l + 1
          /\ Debt \in Int /\ m \in Nat /\ l \in Nat
      BY <1>n, <2>2, <2>6, <2>7
    <3>2. Debt + (m - 1) + (l + 1) = Debt + m + l
      <4> HIDE DEF m, l
      <4> QED  BY <3>1
    <3> QED  BY <3>1, <3>2
  <2>9. Cardinality(threadList') - Debt' - Many(where', "leave") =
          Cardinality(threadList) - Debt - Many(where, "leave")
    BY <1>n, <2>2, <2>5, <2>7
  <2>10. threadList' = threadList \/ Many(where, "leave") > 0
    BY <2>2
  <2> QED  BY Zenon, <2>7, <2>8, <2>9, <2>10
<1> QED  BY Zenon, <1>2, <1>3, <1>4, <1>5, <1>6 DEF Worker

(* Threads that poison, the count or the end have reached are all in       *)
(* threadList_.                                                            *)
LEMMA AllListed ==
  ASSUME Types, Listed
  PROVE  /\ Cardinality(threadList) >= Many(where, "poisoned")
              + Many(where, "countUp") + Many(where, "leave")
         /\ threadList = {} => /\ Many(where, "poisoned") = 0
                               /\ Many(where, "countUp") = 0
<1> DEFINE P == Those(where, "poisoned")
           C == Those(where, "countUp")
           L == Those(where, "leave")
<1>1. /\ P \cup (C \cup L) \subseteq threadList
      /\ P \cap (C \cup L) = {} /\ C \cap L = {}
  BY DEF Those, Listed
<1>2. IsFiniteSet(P) /\ IsFiniteSet(C) /\ IsFiniteSet(L)
  BY Zenon, ManyType
<1> HIDE DEF P, C, L
<1>3. /\ IsFiniteSet(C \cup L)
      /\ Cardinality(C \cup L) = Cardinality(C) + Cardinality(L)
  BY <1>1, <1>2, FS_Union, FS_EmptySet, FS_CardinalityType
<1>4. Cardinality(P \cup (C \cup L)) = Cardinality(P) + Cardinality(C \cup L)
  <2> DEFINE D == C \cup L
  <2>1. IsFiniteSet(P) /\ IsFiniteSet(D) /\ P \cap D = {}
    BY Zenon, <1>1, <1>2, <1>3
  <2> HIDE DEF D
  <2>2. /\ Cardinality(P \cup D) =
             Cardinality(P) + Cardinality(D) - Cardinality(P \cap D)
        /\ Cardinality(P \cap D) = 0
    BY Zenon, <2>1, FS_Union, FS_EmptySet
  <2>3. Cardinality(P) \in Nat /\ Cardinality(D) \in Nat
    BY Zenon, <2>1, FS_CardinalityType
  <2>4. Cardinality(P \cup D) = Cardinality(P) + Cardinality(D)
    BY <2>2, <2>3
  <2> QED  BY Zenon, <2>4 DEF D
<1>5. Cardinality(P \cup (C \cup L)) <= Cardinality(threadList)
  BY Zenon, <1>1, WantedType, FS_Subset
<1>6. /\ Many(where, "poisoned") = Cardinality(P)
      /\ Many(where, "countUp") = Cardinality(C)
      /\ Many(where, "leave") = Cardinality(L)
  BY DEF Many, P, C, L
<1>7. Cardinality(threadList) >= Many(where, "poisoned")
        + Many(where, "countUp") + Many(where, "leave")
  BY <1>2, <1>3, <1>4, <1>5, <1>6, WantedType, FS_CardinalityType
<1>8. threadList = {} => P = {} /\ C = {}
  BY <1>1
<1>9. threadList = {} => /\ Many(where, "poisoned") = 0
                         /\ Many(where, "countUp") = 0
  BY Zenon, <1>8, ManyType DEF P, C
<1> QED  BY Zenon, <1>7, <1>9


LEMMA WorkerSettled ==
  ASSUME Types, Types', Listed, fatal = "none", Debt >= 0, Settled,
         NEW w \in Workers, Worker(w)
  PROVE  Settled'
<1>1. owner' = owner /\ Due' = Due /\ Wanted' = Wanted
  BY Zenon, WorkerMoves DEF Due, Wanted
<1>2. SUFFICES ASSUME owner.at \notin {"failed", "terminated"}
               PROVE  /\ Debt' + Many(where', "leave") + Len(stoppedThreads')
                           = Due
                      /\ owner.fresh \subseteq threadList'
                      /\ owner.at \in {"startup", "count"} =>
                           Cardinality(threadList') = Wanted + owner.k
                      /\ owner.at \in {"poison", "join"} =>
                           Cardinality(threadList') =
                             Wanted + Debt' + Many(where', "leave")
  BY Zenon, <1>1 DEF Settled
<1>3. /\ Debt + Many(where, "leave") + Len(stoppedThreads) = Due
      /\ owner.fresh \subseteq threadList
      /\ owner.at \in {"startup", "count"} =>
           Cardinality(threadList) = Wanted + owner.k
      /\ owner.at \in {"poison", "join"} =>
           Cardinality(threadList) = Wanted + Debt + Many(where, "leave")
  BY Zenon, <1>2 DEF Settled
<1>4. /\ Debt' + Many(where', "leave") + Len(stoppedThreads') =
           Debt + Many(where, "leave") + Len(stoppedThreads)
      /\ Cardinality(threadList') - Debt' - Many(where', "leave") =
           Cardinality(threadList) - Debt - Many(where, "leave")
      /\ threadList' = threadList \/ Many(where, "leave") > 0
  BY Zenon, Balanced
<1>5. Due = 0 => threadList' = threadList
  BY <1>3, <1>4, Numbers
<1>6. owner.fresh \subseteq threadList'
  <2>1. CASE owner.at = "startup"
    BY Zenon, <1>3, <1>5, <2>1 DEF Due
  <2>2. CASE owner.at # "startup"
    BY Zenon, <2>2 DEF Types, OwnerOK
  <2> QED  BY <2>1, <2>2
<1>7. owner.at \in {"startup", "count"} =>
        Cardinality(threadList') = Wanted + owner.k
  BY Zenon, <1>3, <1>5 DEF Due
<1>8. owner.at \in {"poison", "join"} =>
        Cardinality(threadList') = Wanted + Debt' + Many(where', "leave")
  <2>1. Debt' \in Int /\ Many(where', "leave") \in Nat
        /\ Cardinality(threadList') \in Nat
    BY Zenon, NumbersNext
  <2>2. /\ Debt \in Int /\ Many(where, "leave") \in Nat
        /\ Cardinality(threadList) \in Nat /\ Wanted \in Nat
    BY Numbers
  <2>3. SUFFICES ASSUME Cardinality(threadList) =
                          Wanted + Debt + Many(where, "leave")
                 PROVE  Cardinality(threadList') =
                          Wanted + Debt' + Many(where', "leave")
    BY Zenon, <1>3
  <2>4. Cardinality(threadList') - Debt' - Many(where', "leave") = Wanted
    BY <1>4, <2>2, <2>3
  <2> QED  BY <2>1, <2>2, <2>4
<1> QED  BY Zenon, <1>3, <1>4, <1>6, <1>7, <1>8

(* Before stop(): a thread that goes anywhere but away.                    *)
LEMMA JoiningStays ==
  ASSUME Types, Joining, NEW w \in Workers, NEW b,
         Moves(where, w, where[w], b, where'),
         b \notin {"countDown", "countUp", "leave"},
         where[w] \notin {"poisoned", "leave"}, b = "testJoin" => isJoin,
         Poisons(taskQueue') \in Nat,
         Poisons(taskQueue') + (IF b = "poisoned" THEN 1 ELSE 0)
           = Poisons(taskQueue),
         UNCHANGED <<threadsToStop, isJoin, threadList, owner, observing,
                     observed>>
  PROVE  Joining'
<1>1. Pending' = Pending /\ Pending \in Nat
  BY Numbers DEF Pending
<1>2. /\ Those(where', "countDown") = {} /\ Those(where', "countUp") = {}
      /\ Those(where', "leave") = Those(where, "leave")
  BY OneMoves DEF Joining
<1>3. isJoin \/ Those(where', "testJoin") = {}
  BY OneMoves DEF Joining
<1>4. Many(where', "poisoned") =
        Many(where, "poisoned") + (IF b = "poisoned" THEN 1 ELSE 0)
  BY OneMoves, ManyType
<1>5. threadsToStop >=
        Poisons(taskQueue') + Many(where', "poisoned") + Pending
  BY <1>1, <1>4, Numbers DEF Joining
<1> QED  BY Zenon, <1>1, <1>2, <1>3, <1>5 DEF Joining

LEMMA WorkerJoining ==
  ASSUME Types, Types', Listed, Joining, NEW w \in Workers, Worker(w)
  PROVE  Joining' /\ fatal' = fatal
<1>0. /\ where \in [Workers -> WorkerPlaces]
      /\ taskQueue \in Seq(Tasks \cup {Poison}) /\ Poisons(taskQueue') \in Nat
      /\ UNCHANGED <<isJoin, owner, observing>>
  BY Zenon, WorkerMoves, PoisonType DEF Types, PoolTypeOK
<1>1. CASE Start(w) \/ RunTask(w) \/ TestToStop(w) \/ TestJoin(w)
  <2>1. \E b : /\ Moves(where, w, where[w], b, where')
               /\ \/ b \in {"take", "test"}
                  \/ b = "testJoin" /\ threadsToStop > 0
                  \/ b = "countDown" /\ ~isJoin
               /\ b = "countDown" => where[w] = "testJoin"
    BY Zenon, <1>0, <1>1 DEF Start, RunTask, TestToStop, TestJoin, Move, Moves,
                      WorkerPlaces
  <2>2. PICK b : /\ Moves(where, w, where[w], b, where')
                 /\ b \in {"take", "test"} \/ (b = "testJoin" /\ isJoin)
    BY <2>1 DEF Joining, Those
  <2>3. /\ where[w] \notin {"poisoned", "leave"} /\ fatal' = fatal
        /\ UNCHANGED <<threadsToStop, threadList, observed, taskQueue>>
    BY Zenon, <1>1 DEF Start, RunTask, TestToStop, TestJoin, pool
  <2>4. Poisons(taskQueue') + (IF b = "poisoned" THEN 1 ELSE 0)
          = Poisons(taskQueue)
    BY <1>0, <2>2, <2>3
  <2>5. /\ b \notin {"countDown", "countUp", "leave"}
        /\ b = "testJoin" => isJoin
    BY Zenon, <2>2
  <2> QED  BY Zenon, <1>0, <2>2, <2>3, <2>4, <2>5, JoiningStays
<1>2. CASE Take(w)
  <2> DEFINE b == IF Head(taskQueue) = Poison THEN "poisoned" ELSE "run"
  <2>1. /\ Moves(where, w, where[w], b, where') /\ where[w] = "take"
        /\ UNCHANGED <<threadsToStop, threadList, observed, fatal>>
        /\ taskQueue # <<>> /\ taskQueue' = Tail(taskQueue)
    BY Zenon, <1>0, <1>2 DEF Take, Move, Moves, WorkerPlaces
  <2>2. Poisons(taskQueue') + (IF b = "poisoned" THEN 1 ELSE 0)
          = Poisons(taskQueue)
    BY <1>0, <2>1, PoisonTail, PoisonType
  <2>3. b \notin {"countDown", "countUp", "leave"} /\ b # "testJoin"
    BY Zenon
  <2> HIDE DEF b
  <2> QED  BY Zenon, <1>0, <2>1, <2>2, <2>3, JoiningStays
<1>3. CASE Poisoned(w)
  <2>1. Moves(where, w, "poisoned", "leave", where')
    BY Zenon, <1>0, <1>3 DEF Poisoned, Move, Moves, WorkerPlaces
  <2>2. /\ Many(where', "poisoned") = Many(where, "poisoned") - 1
        /\ Many(where, "poisoned") > 0
        /\ Those(where', "leave") = Those(where, "leave") \cup {w}
        /\ Those(where', "countDown") = Those(where, "countDown")
        /\ Those(where', "countUp") = Those(where, "countUp")
        /\ Those(where', "testJoin") = Those(where, "testJoin")
    BY <2>1, OneMoves
  <2>3. Pending' = Pending /\ Pending \in Nat
    BY <1>0, Numbers DEF Pending
  <2>4. threadsToStop > 0 /\ isJoin
    BY <2>2, <2>3, Numbers DEF Joining
  <2>5. /\ fatal' = fatal /\ threadsToStop' = threadsToStop - 1
        /\ observed' = (IF observing THEN observed \ {w} ELSE observed)
        /\ UNCHANGED <<taskQueue, threadList>>
    BY <1>3, <2>4 DEF Poisoned
  <2>6. threadsToStop' >=
          Poisons(taskQueue') + Many(where', "poisoned") + Pending'
    BY SMTT(20), <2>2, <2>3, <2>5, Numbers DEF Joining
  <2> QED  BY Zenon, <1>0, <2>2, <2>4, <2>5, <2>6 DEF Joining
<1>4. CASE CountDown(w) \/ CountUp(w)
  BY Zenon, <1>4 DEF CountDown, CountUp, Joining, Those
<1>5. CASE Leave(w)
  <2>1. Moves(where, w, "leave", "gone", where')
    BY Zenon, <1>0, <1>5 DEF Leave, Move, Moves, WorkerPlaces
  <2>2. /\ Many(where', "poisoned") = Many(where, "poisoned")
        /\ Those(where', "leave") = Those(where, "leave") \ {w}
        /\ Those(where', "countDown") = Those(where, "countDown")
        /\ Those(where', "countUp") = Those(where, "countUp")
        /\ Those(where', "testJoin") = Those(where, "testJoin")
    BY <2>1, OneMoves
  <2>3. Pending' = Pending
    BY Zenon, <1>0 DEF Pending
  <2>4. /\ threadList' = threadList \ {w}
        /\ UNCHANGED <<taskQueue, threadsToStop, observed, fatal>>
    BY Zenon, <1>5 DEF Leave
  <2>5. (threadList' \ Those(where', "leave")) \ owner'.fresh =
          (threadList \ Those(where, "leave")) \ owner.fresh
    <3>1. w \in Those(where, "leave")
      BY <1>5 DEF Leave, Those
    <3> QED  BY Zenon, <1>0, <2>2, <2>4, <3>1
  <2> QED  BY Zenon, <1>0, <2>2, <2>3, <2>4, <2>5 DEF Joining
<1> QED  BY Zenon, <1>1, <1>2, <1>3, <1>4, <1>5 DEF Worker


(* From stop() on.                                                         *)
LEMMA WorkerEnding ==
  ASSUME Types, Types', Listed, Ending, NEW w \in Workers, Worker(w)
  PROVE  Ending' /\ fatal' = fatal
<1>0. /\ where \in [Workers -> WorkerPlaces]
      /\ taskQueue \in Seq(Tasks \cup {Poison})
      /\ owner' = owner /\ w \in threadList
  BY Zenon, WorkerMoves DEF Types, PoolTypeOK, Listed
<1>1. ASSUME ~Poisoned(w) PROVE fatal' = fatal
  BY Zenon, <1>1
     DEF Worker, Start, Take, RunTask, TestToStop, TestJoin, CountDown,
              CountUp, Leave
<1>2. CASE owner.at = "count"
  <2>1. Those(where, "poisoned") = {} /\ Poisons(taskQueue) = 0
    BY Zenon, <1>0, <1>2 DEF Ending
  <2>2. ~Poisoned(w)
    BY Zenon, <2>1 DEF Poisoned, Those
  <2>3. CASE Take(w)
    <3>1. \A j \in 1..Len(taskQueue) : taskQueue[j] # Poison
      BY Zenon, <1>0, <2>1, PoisonType
    <3>2. Head(taskQueue) # Poison /\ taskQueue # <<>>
      BY <1>0, <2>3, <3>1 DEF Take
    <3>3. Poisons(taskQueue') = 0
      BY Zenon, <1>0, <2>1, <2>3, <3>2, PoisonTail DEF Take
    <3>4. Those(where', "poisoned") = {}
      BY Zenon, <1>0, <2>1, <2>3, <3>2 DEF Take, Move, Those
    <3> QED  BY Zenon, <1>0, <1>1, <1>2, <2>2, <3>3, <3>4 DEF Ending
  <2>4. CASE ~Take(w)
    <3>1. taskQueue' = taskQueue
      BY Zenon, <2>2, <2>4
         DEF Worker, Start, RunTask, TestToStop, TestJoin, CountDown,
                        CountUp, Leave, pool
    <3>2. Those(where', "poisoned") = {}
      BY Zenon, <1>0, <2>1, <2>2, <2>4
         DEF Worker, Start, RunTask, TestToStop, TestJoin, CountDown, CountUp,
             Leave, Move, Those
    <3> QED  BY Zenon, <1>0, <1>1, <1>2, <2>1, <2>2, <3>1, <3>2 DEF Ending
  <2> QED  BY Zenon, <2>3, <2>4
<1>3. CASE owner.at # "count"
  <2>1. Cardinality(threadList) = Debt + Many(where, "leave")
    BY Zenon, <1>3 DEF Ending
  <2>2. Cardinality(threadList') - Debt' - Many(where', "leave") =
          Cardinality(threadList) - Debt - Many(where, "leave")
    BY Balanced
  <2>3. /\ Debt' \in Int /\ Many(where', "leave") \in Nat
        /\ Cardinality(threadList') \in Nat
    BY Zenon, NumbersNext
  <2>4. /\ Debt \in Int /\ Many(where, "leave") \in Nat
        /\ Many(where, "countUp") \in Nat /\ threadsToStop \in Int
    BY Zenon, Numbers
  <2>5. Cardinality(threadList') - Debt' - Many(where', "leave") = 0
    BY <2>1, <2>2, <2>4
  <2>6. Cardinality(threadList') = Debt' + Many(where', "leave")
    BY <2>3, <2>5
  <2>7. ASSUME Poisoned(w) PROVE fatal' = fatal
    <3>1. Moves(where, w, "poisoned", "leave", where')
      BY Zenon, <1>0, <2>7 DEF Poisoned, Move, Moves, WorkerPlaces
    <3>2. Many(where, "poisoned") > 0 /\ Many(where, "poisoned") \in Nat
      BY Zenon, <3>1, OneMoves, ManyType
    <3>3. Cardinality(threadList) >= Many(where, "poisoned")
            + Many(where, "countUp") + Many(where, "leave")
      BY Zenon, AllListed
    <3>4. threadsToStop > 0
      BY <2>1, <2>4, <3>2, <3>3 DEF Debt
    <3> QED  BY Zenon, <2>7, <3>4 DEF Poisoned
  <2> QED  BY Zenon, <1>0, <1>1, <1>3, <2>6, <2>7 DEF Ending
<1> QED  BY Zenon, <1>2, <1>3

(* What holds of an owner that does not go on: no check has failed.        *)
Good == fatal = "none" /\ Settled /\ Mode

LEMMA WorkerGood ==
  ASSUME Types, Types', Listed, Debt >= 0, Good, owner.at # "terminated",
         NEW w \in Workers, Worker(w)
  PROVE  Good'
<1>0. fatal = "none" /\ Settled /\ Mode
  BY Zenon DEF Good
<1>1. owner' = owner
  BY Zenon, WorkerMoves
<1>2. Settled'
  BY <1>0, WorkerSettled
<1>3. CASE Joining /\ Open
  <2>1. Joining' /\ fatal' = "none"
    BY Zenon, <1>0, <1>3, WorkerJoining
  <2>2. Open'
    BY Zenon, <1>1, <1>3 DEF Open, Stopping
  <2> QED  BY Zenon, <1>2, <2>1, <2>2 DEF Mode, Good
<1>4. CASE Ending /\ Closed
  <2>1. Ending' /\ fatal' = "none"
    BY Zenon, <1>0, <1>4, WorkerEnding
  <2>2. Closed'
    BY Zenon, <1>1, <1>4 DEF Closed, Stopping
  <2> QED  BY Zenon, <1>2, <2>1, <2>2 DEF Mode, Good
<1> QED  BY Zenon, <1>0, <1>3, <1>4 DEF Mode


(* A step of the owner or of a client that moves no thread and leaves the  *)
(* counts alone.                                                           *)
LEMMA SameJoining ==
  ASSUME Types, Joining,
         UNCHANGED <<threadsToStop, where, isJoin, threadList, observing,
                     observed>>,
         Poisons(taskQueue') + Pending' <= Poisons(taskQueue) + Pending,
         Poisons(taskQueue') \in Nat, Pending' \in Nat,
         owner'.fresh = owner.fresh,
         owner'.at = "count" => owner' = owner
  PROVE  Joining'
<1>1. Pending \in Nat
  BY Numbers DEF Pending
<1>2. threadsToStop >=
        Poisons(taskQueue') + Many(where, "poisoned") + Pending'
  <2>1. /\ threadsToStop >=
             Poisons(taskQueue) + Many(where, "poisoned") + Pending
        /\ Poisons(taskQueue) \in Nat /\ Many(where, "poisoned") \in Nat
        /\ threadsToStop \in Int
    BY Zenon, Numbers DEF Joining
  <2> QED  BY <1>1, <2>1
<1> QED  BY Zenon, <1>2 DEF Joining

LEMMA SameEnding ==
  ASSUME Ending, UNCHANGED <<threadsToStop, where, threadList>>,
         owner.at # "count", owner'.at # "count"
  PROVE  Ending'
BY DEF Ending, Debt

LEMMA SameSettled ==
  ASSUME Types, Settled, owner.at \notin {"failed", "terminated"},
         UNCHANGED <<threadsToStop, where, threadList>>,
         Len(stoppedThreads') - Due' = Len(stoppedThreads) - Due,
         Len(stoppedThreads') \in Nat, Due' \in Nat,
         owner'.at = "startup" => owner' = owner, OwnerOK(owner'),
         owner'.at = "count" => owner' = owner,
         owner'.at \in {"poison", "join"} =>
           owner.at \in {"poison", "join"} /\ Wanted' = Wanted
  PROVE  Settled'
<1>1. /\ Debt + Many(where, "leave") + Len(stoppedThreads) = Due
      /\ Debt \in Int /\ Many(where, "leave") \in Nat
      /\ Len(stoppedThreads) \in Nat /\ Due \in Int
  BY SMTT(20), Numbers DEF Settled, Due
<1>2. Debt' = Debt
  BY DEF Debt
<1>3. Debt' + Many(where', "leave") + Len(stoppedThreads') = Due'
  BY <1>1, <1>2
<1>4. owner'.fresh \subseteq threadList'
  BY Zenon DEF OwnerOK, Settled
<1>5. owner'.at \in {"startup", "count"} =>
        Cardinality(threadList') = Wanted' + owner'.k
  BY Zenon DEF Settled, Wanted
<1>6. owner'.at \in {"poison", "join"} =>
        Cardinality(threadList') = Wanted' + Debt' + Many(where', "leave")
  BY <1>2 DEF Settled
<1> QED  BY Zenon, <1>3, <1>4, <1>5, <1>6 DEF Settled

LEMMA AddGood ==
  ASSUME Types, Types', Good, owner.at # "terminated", NEW t \in Tasks, Add(t)
  PROVE  Good'
<1>0. fatal = "none" /\ Settled /\ Mode
  BY Zenon DEF Good
<1>1. /\ UNCHANGED <<threadsToStop, where, isJoin, threadList, observing,
                     observed, owner, fatal, stoppedThreads>>
      /\ taskQueue' = Append(taskQueue, t)
  BY Zenon DEF Add
<1>2. Poisons(taskQueue') = Poisons(taskQueue) /\ Poisons(taskQueue) \in Nat
  BY <1>1, PoisonAppend, PoisonType, PoolAssumption DEF Types, PoolTypeOK
<1>3. Settled'
  BY Zenon, <1>0, <1>1 DEF Settled, Debt, Due, Wanted
<1>4. CASE Joining /\ Open
  <2>1. Pending \in Nat /\ Pending' = Pending
    BY <1>1, Numbers DEF Pending
  <2>2. Joining'
    BY <1>1, <1>2, <1>4, <2>1, SameJoining
  <2> QED  BY Zenon, <1>0, <1>1, <1>3, <1>4, <2>2
              DEF Mode, Good, Open, Stopping
<1>5. CASE Ending /\ Closed
  <2>1. Ending'
    BY Zenon, <1>1, <1>2, <1>5 DEF Ending, Debt
  <2> QED  BY Zenon, <1>0, <1>1, <1>3, <1>5, <2>1
              DEF Mode, Good, Closed, Stopping
<1> QED  BY Zenon, <1>0, <1>4, <1>5 DEF Mode

LEMMA BeginGood ==
  ASSUME Types, Types', ~goesOn, Good, NEW op \in Ops \cup {"destroy"},
         NEW n \in 0..Cardinality(Workers), BeginCall(op, n)
  PROVE  Good'
<1>0. fatal = "none" /\ Settled /\ Mode /\ OwnerOK(owner) /\ OwnerOK(owner')
  BY DEF Good, Types
<1>1. /\ UNCHANGED <<threadsToStop, where, isJoin, threadList, observing,
                     observed, taskQueue, fatal, stoppedThreads>>
      /\ owner.at = "idle" /\ (op = "destroy" \/ owner.op # "stop")
  BY DEF BeginCall, pool, WorkerSide
<1>2. owner'.at = "lock" /\ owner'.op = op
  <2>1. n \in Nat /\ owner' = [Idle EXCEPT !.at = "lock", !.op = op, !.n = n]
    BY DEF BeginCall
  <2> QED  BY Zenon, <1>0, <2>1, OwnerBegins
<1>3. /\ Due = 0 /\ Due' = 0 /\ Pending = 0 /\ Pending' = 0
      /\ owner.fresh = {} /\ owner'.fresh = {}
  BY Zenon, <1>0, <1>1, <1>2 DEF Due, Pending, OwnerOK
<1>4. Settled'
  BY Zenon, <1>0, <1>1, <1>2, <1>3, Numbers, SameSettled
<1>5. CASE Joining /\ Open
  <2>1. Joining'
    BY Zenon, <1>1, <1>2, <1>3, <1>5, Numbers, SameJoining
  <2> QED  BY Zenon, <1>0, <1>1, <1>2, <1>4, <2>1 DEF Mode, Good, Open
<1>6. CASE Ending /\ Closed
  <2>1. Ending'
    BY Zenon, <1>1, <1>2, <1>6, SameEnding
  <2>2. Closed'
    BY Zenon, <1>1, <1>2, <1>6 DEF Closed
  <2> QED  BY Zenon, <1>0, <1>1, <1>4, <2>1, <2>2 DEF Mode, Good
<1> QED  BY Zenon, <1>0, <1>1, <1>5, <1>6 DEF Mode

LEMMA ObserverGood ==
  ASSUME Types, Types', Debt >= 0, Good, AddObserver \/ RemoveObserver
  PROVE  Good'
<1>0. fatal = "none" /\ Settled /\ Mode
  BY Zenon DEF Good
<1>1. /\ UNCHANGED <<threadsToStop, where, isJoin, threadList, taskQueue, owner,
                     fatal, stoppedThreads>>
      /\ owner.at = "idle" /\ (observing' => observed' = threadList)
  BY Zenon DEF AddObserver, RemoveObserver, pool, WorkerSide
<1>2. Settled'
  BY Zenon, <1>0, <1>1 DEF Settled, Debt, Due, Wanted
<1>3. CASE Joining /\ Open
  <2>1. Those(where, "leave") = {} /\ owner.fresh = {}
    <3>1. Debt + Many(where, "leave") + Len(stoppedThreads) = 0
      BY Zenon, <1>0, <1>1 DEF Settled, Due
    <3>2. Many(where, "leave") = 0
      BY <3>1, Numbers
    <3> QED  BY Zenon, <1>1, <3>2, ManyType DEF Types, OwnerOK
  <2>2. Joining'
    BY Zenon, <1>1, <1>3, <2>1 DEF Joining, Pending
  <2> QED  BY Zenon, <1>0, <1>1, <1>2, <1>3, <2>2
              DEF Mode, Good, Open, Stopping
<1>4. CASE Ending /\ Closed
  BY Zenon, <1>0, <1>1, <1>2, <1>4
     DEF Mode, Good, Ending, Debt, Closed, Stopping
<1> QED  BY Zenon, <1>0, <1>1, <1>3, <1>4 DEF Mode


(* At the end of a call nothing is owed, and so none is leaving.           *)
LEMMA NothingDue ==
  ASSUME Types, Debt >= 0, Settled, Due = 0,
         owner.at \notin {"failed", "terminated"}
  PROVE  /\ Debt = 0 /\ Many(where, "leave") = 0 /\ Len(stoppedThreads) = 0
         /\ Those(where, "leave") = {}
<1>1. Debt + Many(where, "leave") + Len(stoppedThreads) = 0
  BY Zenon DEF Settled
<1>2. Debt = 0 /\ Many(where, "leave") = 0 /\ Len(stoppedThreads) = 0
  BY <1>1, Numbers
<1> QED  BY Zenon, <1>2, ManyType

LEMMA AddThreadsGood ==
  ASSUME Types, Types', Listed, Debt >= 0, Good, AddThreads
  PROVE  Good'
<1>0. fatal = "none" /\ Settled /\ Mode /\ OwnerOK(owner)
      /\ where \in [Workers -> WorkerPlaces]
  BY Zenon DEF Good, Types, PoolTypeOK
<1>1. PICK new \in SUBSET {w \in Workers : where[w] = "none"} :
        /\ Cardinality(new) = Wanted - Cardinality(threadList)
        /\ threadList' = threadList \cup new
        /\ where' = [w \in Workers |->
                       IF w \in new THEN "starting" ELSE where[w]]
        /\ owner' = [owner EXCEPT !.at = "startup", !.fresh = new]
  BY Zenon DEF AddThreads
<1>2. /\ owner.at = "lock" /\ Wanted > Cardinality(threadList)
      /\ UNCHANGED <<taskQueue, threadsToStop, isJoin, stoppedThreads,
                     observing, observed, fatal>>
  BY DEF AddThreads, history
<1>3. /\ owner'.at = "startup" /\ owner'.fresh = new /\ owner'.op = owner.op
      /\ owner'.n = owner.n /\ owner'.k = 0
  <2>1. new \in SUBSET Workers
    BY Zenon, <1>1
  <2> QED  BY Zenon, <1>0, <1>1, <1>2, <2>1, OwnerStartup
<1>4. owner.op = "setNumThreads"
  BY <1>2, WantedType
<1>5. \A p \in {"leave", "countUp", "countDown", "testJoin", "poisoned"} :
        Those(where', p) = Those(where, p) /\ Many(where', p) = Many(where, p)
  BY Zenon, <1>1 DEF Those, Many
<1>6. Wanted' = Wanted /\ Due = 0 /\ Due' = 0 /\ Debt' = Debt
      /\ Pending = 0 /\ Pending' = 0 /\ owner.fresh = {}
  BY Zenon, <1>0, <1>2, <1>3, <1>5 DEF Wanted, Due, Debt, Pending, OwnerOK
<1>7. Cardinality(threadList') = Wanted
  <2>1. new \cap threadList = {} /\ new \in SUBSET Workers
    BY Zenon, <1>1 DEF Listed
  <2>2. IsFiniteSet(new) /\ IsFiniteSet(threadList)
    BY Zenon, <2>1, PoolAssumption, FS_Subset, WantedType
  <2>3. Cardinality(threadList \cup new) = Cardinality(threadList)
          + Cardinality(new) - Cardinality(threadList \cap new)
    BY Zenon, <2>2, FS_Union
  <2>4. Cardinality(threadList \cap new) = 0
    BY Zenon, <2>1, FS_EmptySet
  <2> QED  BY <1>1, <2>3, <2>4, WantedType
<1>8. Settled'
  <2>1. Debt' + Many(where', "leave") + Len(stoppedThreads') = Due'
    BY Zenon, <1>0, <1>2, <1>5, <1>6 DEF Settled
  <2>2. Cardinality(threadList') = Wanted' + owner'.k
    BY <1>3, <1>6, <1>7, WantedType
  <2> QED  BY Zenon, <1>1, <1>3, <2>1, <2>2 DEF Settled
<1>9. CASE Joining /\ Open
  <2>1. (threadList' \ Those(where', "leave")) \ owner'.fresh =
          (threadList \ Those(where, "leave")) \ owner.fresh
    BY Zenon, <1>1, <1>3, <1>5, <1>6 DEF Listed
  <2>2. Joining'
    BY Zenon, <1>2, <1>3, <1>5, <1>6, <1>9, <2>1 DEF Joining
  <2>3. Open'
    BY Zenon, <1>3, <1>4 DEF Open, Stopping
  <2> QED  BY Zenon, <1>0, <1>2, <1>8, <2>2, <2>3 DEF Good, Mode
<1>10. ~Closed
  BY Zenon, <1>2, <1>4 DEF Closed
<1> QED  BY Zenon, <1>0, <1>2, <1>9, <1>10 DEF Mode

LEMMA StartupGood ==
  ASSUME Types, Types', Debt >= 0, Good, Startup
  PROVE  Good'
<1>0. fatal = "none" /\ Settled /\ Mode /\ OwnerOK(owner) /\ OwnerOK(owner')
  BY DEF Good, Types
<1>1. /\ owner.at = "startup"
      /\ observed' = (IF observing THEN observed \cup owner.fresh ELSE observed)
      /\ UNCHANGED <<taskQueue, threadsToStop, isJoin, threadList,
                     stoppedThreads, where, observing, fatal>>
  BY DEF Startup, pool, WorkerSide
<1>2. /\ owner'.at = "join" /\ owner'.op = owner.op /\ owner'.n = owner.n
      /\ owner'.k = owner.k /\ owner'.i = owner.i
  <2>1. Became(owner', "join", owner.k, owner.i, owner.owed)
    BY Zenon, <1>0, OwnerStarted DEF Startup
  <2> QED  BY Zenon, <2>1 DEF Became
<1>3. owner.k = 0 /\ owner.i = 0 /\ owner'.fresh = {}
  BY <1>0, <1>1, <1>2, Numbers DEF OwnerOK
<1>4. Due = 0 /\ Due' = 0 /\ Pending = 0 /\ Pending' = 0 /\ Wanted' = Wanted
      /\ Debt' = Debt
  BY <1>1, <1>2, <1>3 DEF Due, Pending, Wanted, Debt
<1>5. /\ Debt = 0 /\ Many(where, "leave") = 0 /\ Len(stoppedThreads) = 0
      /\ Those(where, "leave") = {}
  BY Zenon, <1>0, <1>1, <1>4, NothingDue
<1>6. Settled'
  <2>1. Cardinality(threadList) = Wanted + 0 /\ Wanted \in Nat
    BY Zenon, <1>0, <1>1, <1>3, WantedType DEF Settled
  <2> QED  BY <1>1, <1>2, <1>3, <1>4, <1>5, <2>1 DEF Settled
<1>7. CASE Joining /\ Open
  <2>1. observing => observed' = (threadList' \ Those(where', "leave"))
                                   \ owner'.fresh
    <3>1. owner.fresh \subseteq threadList
      BY Zenon, <1>0, <1>1 DEF Settled
    <3>2. observing => observed = (threadList \ Those(where, "leave"))
                                    \ owner.fresh
      BY Zenon, <1>7 DEF Joining
    <3> QED  BY Zenon, <1>1, <1>3, <1>5, <3>1, <3>2
  <2>2. Joining'
    BY Zenon, <1>1, <1>2, <1>4, <1>7, <2>1 DEF Joining
  <2>3. Open'
    BY Zenon, <1>1, <1>2, <1>7 DEF Open, Stopping
  <2> QED  BY Zenon, <1>0, <1>1, <1>6, <2>2, <2>3 DEF Good, Mode
<1>8. ~Closed
  BY Zenon, <1>1 DEF Closed
<1> QED  BY Zenon, <1>0, <1>1, <1>7, <1>8 DEF Mode

LEMMA RemoveThreadsGood ==
  ASSUME Types, Types', Listed, Debt >= 0, Good, RemoveThreads
  PROVE  Good'
<1>0. fatal = "none" /\ Settled /\ Mode /\ OwnerOK(owner) /\ OwnerOK(owner')
  BY DEF Good, Types
<1>1. /\ owner.at = "lock" /\ Wanted <= Cardinality(threadList)
      /\ isJoin' = (IF Cardinality(threadList) = Wanted
                       /\ owner.op = "setNumThreads" THEN isJoin ELSE ~Stopping)
      /\ UNCHANGED <<taskQueue, threadsToStop, threadList, stoppedThreads,
                     where, observing, observed, fatal>>
  BY DEF RemoveThreads, WorkerSide
<1>2. /\ owner'.at = "count" /\ owner'.op = owner.op /\ owner'.n = owner.n
      /\ owner'.k = Cardinality(threadList) - Wanted
  <2>1. Cardinality(threadList) - Wanted \in Nat
    BY <1>1, WantedType
  <2>2. added \ done \in SUBSET Tasks
    BY DEF Types, PoolTypeOK
  <2>3. PICK k \in Nat, s \in SUBSET Tasks :
               k = Cardinality(threadList) - Wanted /\ s = added \ done
    BY Zenon, <2>1, <2>2
  <2>4. owner' = [owner EXCEPT !.at = "count", !.k = k, !.owed = s]
    BY <2>3 DEF RemoveThreads
  <2>5. Became(owner', "count", k, 0, s)
    BY Zenon, <1>0, <1>1, <2>4, OwnerCount
  <2> QED  BY Zenon, <2>3, <2>5 DEF Became
<1>3. owner.fresh = {} /\ owner'.fresh = {}
  BY Zenon, <1>0, <1>1, <1>2 DEF OwnerOK
<1>4. Due = 0 /\ Due' = 0 /\ Pending = 0 /\ Pending' = 0 /\ Wanted' = Wanted
      /\ Debt' = Debt /\ (Stopping' <=> Stopping)
  BY Zenon, <1>1, <1>2 DEF Due, Pending, Wanted, Debt, Stopping
<1>5. /\ Debt = 0 /\ Many(where, "leave") = 0 /\ Len(stoppedThreads) = 0
  BY Zenon, <1>0, <1>1, <1>4, NothingDue
<1>6. Settled'
  <2>1. Cardinality(threadList') = Wanted' + owner'.k
    BY <1>1, <1>2, <1>4, WantedType
  <2> QED  BY <1>1, <1>2, <1>3, <1>4, <1>5, <2>1 DEF Settled
<1>7. CASE Joining /\ Open /\ ~Stopping
  <2>1. isJoin' \/ (isJoin' = isJoin /\ owner'.k = 0)
    <3>1. CASE Cardinality(threadList) = Wanted /\ owner.op = "setNumThreads"
      BY <1>1, <1>2, <3>1, WantedType
    <3>2. CASE ~(Cardinality(threadList) = Wanted
                   /\ owner.op = "setNumThreads")
      BY Zenon, <1>1, <1>7, <3>2
    <3> QED  BY Zenon, <3>1, <3>2
  <2>2. Joining'
    BY Zenon, <1>1, <1>2, <1>3, <1>4, <1>7, <2>1 DEF Joining
  <2>3. Open'
    BY Zenon, <1>2, <1>4, <1>7 DEF Open
  <2> QED  BY Zenon, <1>0, <1>1, <1>6, <2>2, <2>3 DEF Good, Mode
<1>8. CASE Stopping /\ (Joining \/ Ending)
  <2>1. ASSUME Joining PROVE Ending'
    <3>1. Many(where, "countUp") = 0
      BY Zenon, <2>1, ManyType DEF Joining
    <3>2. threadsToStop = 0
      BY <1>5, <3>1, Numbers DEF Debt
    <3>3. Poisons(taskQueue) = 0 /\ Many(where, "poisoned") = 0
      BY <1>4, <2>1, <3>2, Numbers DEF Joining
    <3> QED  BY Zenon, <1>1, <1>2, <3>3, ManyType DEF Ending
  <2>2. ASSUME Ending PROVE Ending'
    <3>1. threadList = {}
      BY <1>1, <1>5, <2>2, WantedType DEF Ending
    <3>2. Many(where, "poisoned") = 0
      BY Zenon, <3>1, AllListed
    <3> QED  BY Zenon, <1>1, <1>2, <3>1, <3>2, ManyType DEF Ending
  <2>3. Closed'
    BY Zenon, <1>2, <1>4, <1>8 DEF Closed
  <2> QED  BY Zenon, <1>0, <1>1, <1>6, <1>8, <2>1, <2>2, <2>3 DEF Good, Mode
<1>9. Closed => Stopping
  BY Zenon, <1>1 DEF Closed, Stopping
<1> QED  BY Zenon, <1>0, <1>1, <1>7, <1>8, <1>9 DEF Mode


LEMMA StopThreadsGood ==
  ASSUME Types, Types', Debt >= 0, Good, StopThreads
  PROVE  Good'
<1>0. fatal = "none" /\ Settled /\ Mode /\ OwnerOK(owner) /\ OwnerOK(owner')
  BY DEF Good, Types
<1>1. /\ owner.at = "count" /\ threadsToStop' = threadsToStop + owner.k
      /\ UNCHANGED <<taskQueue, isJoin, threadList, stoppedThreads, where,
                     observing, observed, fatal>>
  BY DEF StopThreads, WorkerSide
<1>2. /\ owner'.at = "poison" /\ owner'.op = owner.op /\ owner'.n = owner.n
      /\ owner'.k = owner.k /\ owner'.i = 0
  <2>1. Became(owner', "poison", owner.k, 0, owner.owed)
    BY Zenon, <1>0, OwnerPoison DEF StopThreads
  <2> QED  BY Zenon, <2>1 DEF Became
<1>3. owner.fresh = {} /\ owner'.fresh = {} /\ owner.k \in Nat
  BY Zenon, <1>0, <1>1, <1>2 DEF OwnerOK, OwnerType
<1>4. /\ Due = 0 /\ Due' = owner.k /\ Pending = 0 /\ Pending' = owner.k
      /\ Wanted' = Wanted /\ (Stopping' <=> Stopping)
  BY <1>1, <1>2, <1>3 DEF Due, Pending, Wanted, Stopping
<1>5. /\ Debt = 0 /\ Many(where, "leave") = 0 /\ Len(stoppedThreads) = 0
  BY Zenon, <1>0, <1>1, <1>4, NothingDue
<1>6. Debt' = owner.k
  BY SMTT(20), <1>1, <1>3, <1>5, Numbers DEF Debt
<1>7. Cardinality(threadList) = Wanted + owner.k
  BY Zenon, <1>0, <1>1 DEF Settled
<1>8. Settled'
  BY <1>1, <1>2, <1>3, <1>4, <1>5, <1>6, <1>7, WantedType DEF Settled
<1>9. CASE Joining /\ Open
  <2>1. threadsToStop' >=
          Poisons(taskQueue') + Many(where', "poisoned") + Pending'
    BY SMTT(20), <1>1, <1>3, <1>4, <1>9, Numbers DEF Joining
  <2>2. isJoin' \/ (Those(where', "testJoin") = {} /\ threadsToStop' = 0)
    BY <1>1, <1>9 DEF Joining
  <2>3. Joining'
    BY Zenon, <1>1, <1>2, <1>3, <1>9, <2>1, <2>2 DEF Joining
  <2>4. Open'
    BY Zenon, <1>1, <1>2, <1>4, <1>9 DEF Open
  <2> QED  BY Zenon, <1>0, <1>1, <1>8, <2>3, <2>4 DEF Good, Mode
<1>10. CASE Ending /\ Closed
  <2>1. Stopping
    BY Zenon, <1>1, <1>10 DEF Closed
  <2>2. Wanted = 0
    BY Zenon, <2>1 DEF Wanted, Stopping
  <2>3. Ending'
    BY <1>1, <1>2, <1>3, <1>5, <1>6, <1>7, <2>2 DEF Ending
  <2>4. Closed'
    BY Zenon, <1>2, <1>4, <2>1 DEF Closed
  <2> QED  BY Zenon, <1>0, <1>1, <1>8, <2>3, <2>4 DEF Good, Mode
<1> QED  BY Zenon, <1>0, <1>1, <1>9, <1>10 DEF Mode

LEMMA AddPoisonGood ==
  ASSUME Types, Types', ~goesOn, Debt >= 0, Good, AddPoison
  PROVE  Good'
<1>0. /\ fatal = "none" /\ Settled /\ Mode /\ OwnerOK(owner) /\ OwnerOK(owner')
      /\ taskQueue \in Seq(Tasks \cup {Poison})
  BY DEF Good, Types, PoolTypeOK
<1>1. /\ owner.at = "poison" /\ owner.i < owner.k
      /\ UNCHANGED <<threadsToStop, isJoin, threadList, stoppedThreads, where,
                     observing, observed, fatal>>
  BY Zenon DEF AddPoison, WorkerSide
<1>2. CASE /\ taskQueue' = Append(taskQueue, Poison)
           /\ owner' = [owner EXCEPT !.i = @ + 1]
  <2>1. /\ owner'.at = "poison" /\ owner'.op = owner.op /\ owner'.n = owner.n
        /\ owner'.k = owner.k /\ owner'.i = owner.i + 1
    <3>1. Became(owner', owner.at, owner.k, owner.i + 1, owner.owed)
      BY <1>0, <1>1, <1>2, OwnerOneOn
    <3> QED  BY Zenon, <1>1, <3>1 DEF Became
  <2>2. owner.fresh = {} /\ owner'.fresh = {}
    BY Zenon, <1>0, <1>1, <2>1 DEF OwnerOK
  <2>3. /\ Due' = Due /\ Pending' = Pending - 1 /\ Pending \in Nat
        /\ Pending' \in Nat /\ Due \in Nat
        /\ Wanted' = Wanted /\ (Stopping' <=> Stopping)
    <3>1. /\ Due = owner.k /\ Due' = owner.k /\ Pending = owner.k - owner.i
          /\ Pending' = owner.k - (owner.i + 1)
          /\ owner.k \in Nat /\ owner.i \in Nat
      BY Zenon, <1>1, <2>1, Numbers DEF Due, Pending
    <3>2. Wanted' = Wanted /\ (Stopping' <=> Stopping)
      BY Zenon, <2>1 DEF Wanted, Stopping
    <3>3. Pending' = Pending - 1 /\ Pending \in Nat /\ Pending' \in Nat
      BY <1>1, <3>1
    <3> QED  BY Zenon, <3>1, <3>2, <3>3
  <2>4. Poisons(taskQueue') = Poisons(taskQueue) + 1
        /\ Poisons(taskQueue) \in Nat
    BY Zenon, <1>0, <1>2, PoisonAppend, PoisonType
  <2>5. Settled'
    BY Zenon, <1>0, <1>1, <2>1, <2>3, Numbers, SameSettled
  <2>6. CASE Joining /\ Open
    <3>1. Joining'
      BY <1>1, <2>1, <2>2, <2>3, <2>4, <2>6, SameJoining
    <3>2. Open'
      BY Zenon, <1>1, <2>1, <2>3, <2>6 DEF Open
    <3> QED  BY Zenon, <1>0, <1>1, <2>5, <3>1, <3>2 DEF Good, Mode
  <2>7. CASE Ending /\ Closed
    <3>1. Ending'
      BY Zenon, <1>1, <2>1, <2>7, SameEnding
    <3>2. Closed'
      BY Zenon, <1>1, <2>1, <2>3, <2>7 DEF Closed
    <3> QED  BY Zenon, <1>0, <1>1, <2>5, <3>1, <3>2 DEF Good, Mode
  <2> QED  BY Zenon, <1>0, <1>1, <2>6, <2>7 DEF Mode
<1>3. CASE UNCHANGED taskQueue /\ \E a \in {"terminated", "failed"} :
             owner' = [Idle EXCEPT !.at = a]
  <2>1. PICK a \in {"terminated", "failed"} : owner' = [Idle EXCEPT !.at = a]
    BY Zenon, <1>3
  <2>2. owner'.at = a
    BY Zenon, <1>0, <2>1, OwnerThrows
  <2>3. Settled'
    BY Zenon, <2>2 DEF Settled
  <2>4. owner.fresh = {} /\ owner'.fresh = {} /\ Pending' = 0 /\ Pending \in Nat
    BY SMTT(20), <1>0, <1>1, <2>2, Numbers DEF OwnerOK, Pending
  <2>5. CASE Joining /\ Open
    <3>1. Joining'
      BY SMTT(20), <1>1, <1>3, <2>2, <2>4, <2>5, Numbers, SameJoining
    <3>2. Open'
      BY Zenon, <2>2 DEF Open
    <3> QED  BY <1>0, <1>1, <2>3, <3>1, <3>2 DEF Good, Mode
  <2>6. CASE Ending /\ Closed
    <3>1. Ending'
      BY Zenon, <1>1, <2>2, <2>6, SameEnding
    <3>2. owner'.at = "terminated" \/ Closed'
      BY Zenon, <2>2 DEF Closed
    <3> QED  BY Zenon, <1>0, <1>1, <2>3, <3>1, <3>2 DEF Good, Mode
  <2> QED  BY Zenon, <1>0, <1>1, <2>5, <2>6 DEF Mode
<1> QED  BY Zenon, <1>2, <1>3 DEF AddPoison

LEMMA UnlockListGood ==
  ASSUME Types, Types', Good, UnlockList
  PROVE  Good'
<1>0. fatal = "none" /\ Settled /\ Mode /\ OwnerOK(owner) /\ OwnerOK(owner')
  BY DEF Good, Types
<1>1. /\ owner.at = "poison" /\ owner.i = owner.k
      /\ UNCHANGED <<taskQueue, threadsToStop, isJoin, threadList,
                     stoppedThreads, where, observing, observed, fatal>>
  BY DEF UnlockList, pool, WorkerSide
<1>2. /\ owner'.at = "join" /\ owner'.op = owner.op /\ owner'.n = owner.n
      /\ owner'.k = owner.k /\ owner'.i = 0
  <2>1. Became(owner', "join", owner.k, 0, owner.owed)
    BY Zenon, <1>0, <1>1, OwnerUnlock DEF UnlockList
  <2> QED  BY Zenon, <2>1 DEF Became
<1>3. owner.fresh = {} /\ owner'.fresh = {}
  BY Zenon, <1>0, <1>1, <1>2 DEF OwnerOK
<1>4. /\ Due' = Due /\ Due \in Nat /\ Pending = 0 /\ Pending' = 0
      /\ Wanted' = Wanted /\ (Stopping' <=> Stopping)
  BY <1>1, <1>2, Numbers DEF Due, Pending, Wanted, Stopping
<1>5. Settled'
  BY Zenon, <1>0, <1>1, <1>2, <1>4, Numbers, SameSettled
<1>6. CASE Joining /\ Open
  <2>1. Joining'
    BY Zenon, <1>1, <1>2, <1>3, <1>4, <1>6, Numbers, SameJoining
  <2>2. Open'
    BY Zenon, <1>1, <1>2, <1>4, <1>6 DEF Open
  <2> QED  BY Zenon, <1>0, <1>1, <1>5, <2>1, <2>2 DEF Good, Mode
<1>7. CASE Ending /\ Closed
  <2>1. Ending'
    BY Zenon, <1>1, <1>2, <1>7, SameEnding
  <2>2. Closed'
    BY Zenon, <1>1, <1>2, <1>4, <1>7 DEF Closed
  <2> QED  BY Zenon, <1>0, <1>1, <1>5, <2>1, <2>2 DEF Good, Mode
<1> QED  BY Zenon, <1>0, <1>1, <1>6, <1>7 DEF Mode


LEMMA JoinStoppedGood ==
  ASSUME Types, Types', Listed, Good, JoinStopped
  PROVE  Good'
<1>0. /\ fatal = "none" /\ Settled /\ Mode /\ OwnerOK(owner) /\ OwnerOK(owner')
      /\ where \in [Workers -> WorkerPlaces]
      /\ stoppedThreads \in Seq(Workers)
  BY DEF Good, Types, PoolTypeOK
<1>1. /\ owner.at = "join" /\ owner.i < owner.k /\ stoppedThreads # <<>>
      /\ stoppedThreads' = Tail(stoppedThreads)
      /\ where' = [where EXCEPT ![Head(stoppedThreads)] = "none"]
      /\ UNCHANGED <<taskQueue, threadsToStop, isJoin, threadList, observing,
                     observed, fatal>>
  BY Zenon DEF JoinStopped
<1>2. /\ owner'.at = "join" /\ owner'.op = owner.op /\ owner'.n = owner.n
      /\ owner'.k = owner.k /\ owner'.i = owner.i + 1
  <2>1. Became(owner', owner.at, owner.k, owner.i + 1, owner.owed)
    BY <1>0, <1>1, OwnerOneOn DEF JoinStopped
  <2> QED  BY Zenon, <1>1, <2>1 DEF Became
<1>3. owner.fresh = {} /\ owner'.fresh = {}
  BY Zenon, <1>0, <1>1, <1>2 DEF OwnerOK
<1>4. /\ Due = owner.k - owner.i /\ Due' = owner.k - (owner.i + 1)
      /\ owner.k \in Nat /\ owner.i \in Nat
      /\ Pending = 0 /\ Pending' = 0
      /\ Wanted' = Wanted /\ (Stopping' <=> Stopping)
  BY Zenon, <1>1, <1>2, Numbers DEF Due, Pending, Wanted, Stopping
<1>5. \A p \in {"leave", "countUp", "countDown", "testJoin", "poisoned"} :
        Those(where', p) = Those(where, p) /\ Many(where', p) = Many(where, p)
  <2>1. where[Head(stoppedThreads)] = "gone" /\ Head(stoppedThreads) \in Workers
    BY <1>0, <1>1 DEF Listed
  <2>2. \A p \in {"leave", "countUp", "countDown", "testJoin", "poisoned"} :
          Those(where', p) = Those(where, p)
    BY Zenon, <1>0, <1>1, <2>1 DEF Those
  <2> QED  BY Zenon, <2>2 DEF Many
<1>6. Debt' = Debt
  BY Zenon, <1>1, <1>5 DEF Debt
<1>7. Settled'
  <2>1. Len(stoppedThreads') = Len(stoppedThreads) - 1
    BY <1>0, <1>1
  <2>2. Debt + Many(where, "leave") + Len(stoppedThreads) = owner.k - owner.i
    BY Zenon, <1>0, <1>1, <1>4 DEF Settled
  <2>3. /\ Debt \in Int /\ Many(where, "leave") \in Nat
        /\ Len(stoppedThreads) \in Nat
    BY Zenon, Numbers
  <2>4. Debt + Many(where, "leave") + (Len(stoppedThreads) - 1)
          = owner.k - (owner.i + 1)
    <3> DEFINE m == Many(where, "leave")
               l == Len(stoppedThreads)
               k == owner.k
               i == owner.i
    <3>1. /\ Debt + m + l = k - i
          /\ Debt \in Int /\ m \in Nat /\ l \in Nat /\ k \in Nat /\ i \in Nat
      BY Zenon, <1>4, <2>2, <2>3
    <3>2. Debt + m + (l - 1) = k - (i + 1)
      <4> HIDE DEF m, l, k, i
      <4> QED  BY <3>1
    <3> QED  BY Zenon, <3>2
  <2>5. Debt' + Many(where', "leave") + Len(stoppedThreads') = Due'
    BY Zenon, <1>4, <1>5, <1>6, <2>1, <2>4
  <2>6. Cardinality(threadList') = Wanted' + Debt' + Many(where', "leave")
    BY Zenon, <1>0, <1>1, <1>4, <1>5, <1>6 DEF Settled
  <2> QED  BY Zenon, <1>2, <1>3, <2>5, <2>6 DEF Settled
<1>8. CASE Joining /\ Open
  <2>1. Joining'
    BY Zenon, <1>1, <1>2, <1>3, <1>4, <1>5, <1>8 DEF Joining
  <2>2. Open'
    BY <1>1, <1>2, <1>4, <1>8 DEF Open
  <2> QED  BY Zenon, <1>0, <1>1, <1>7, <2>1, <2>2 DEF Good, Mode
<1>9. CASE Ending /\ Closed
  <2>1. Ending'
    BY Zenon, <1>1, <1>2, <1>5, <1>6, <1>9 DEF Ending
  <2>2. Closed'
    BY Zenon, <1>1, <1>2, <1>4, <1>9 DEF Closed
  <2> QED  BY <1>0, <1>1, <1>7, <2>1, <2>2 DEF Good, Mode
<1> QED  BY Zenon, <1>0, <1>1, <1>8, <1>9 DEF Mode

(* When the owner has joined as many threads as it asked to leave, the     *)
(* rest are as many as it wants.                                           *)
LEMMA AtReturn ==
  ASSUME Types, Listed, Debt >= 0, Good, owner.at = "join", owner.i = owner.k
  PROVE  /\ Debt = 0 /\ Len(stoppedThreads) = 0
         /\ Cardinality(threadList) = Wanted
         /\ Joining /\ Open => Poisons(taskQueue) = 0
         /\ Ending => threadsToStop = 0
<1>0. Settled
  BY Zenon DEF Good
<1>1. Due = 0
  BY Numbers DEF Due
<1>2. Debt = 0 /\ Many(where, "leave") = 0 /\ Len(stoppedThreads) = 0
  BY Zenon, <1>0, <1>1, NothingDue
<1>3. Cardinality(threadList) = Wanted
  BY <1>0, <1>2, Numbers DEF Settled
<1>4. ASSUME Joining PROVE Poisons(taskQueue) = 0
  <2>1. Many(where, "countUp") = 0
    BY Zenon, <1>4, ManyType DEF Joining
  <2>2. threadsToStop = 0
    BY <1>2, <2>1, Numbers DEF Debt
  <2>3. Pending = 0
    BY Zenon DEF Pending
  <2> QED  BY <1>4, <2>2, <2>3, Numbers DEF Joining
<1>5. ASSUME Ending PROVE threadsToStop = 0
  <2>1. Cardinality(threadList) = 0
    BY <1>2, <1>5 DEF Ending
  <2>2. Many(where, "countUp") = 0
    BY Zenon, <2>1, WantedType, AllListed
  <2> QED  BY <1>2, <2>2, Numbers DEF Debt
<1> QED  BY Zenon, <1>2, <1>3, <1>4, <1>5

LEMMA ReturnGood ==
  ASSUME Types, Types', Listed, Debt >= 0, Good, Return
  PROVE  Good'
<1>0. fatal = "none" /\ Settled /\ Mode /\ OwnerOK(owner) /\ OwnerOK(owner')
  BY DEF Good, Types
<1>1. /\ owner.at = "join" /\ owner.i = owner.k
      /\ UNCHANGED <<taskQueue, threadsToStop, isJoin, threadList,
                     stoppedThreads, where, observing, observed>>
  BY DEF Return, pool, WorkerSide
<1>2. PICK a \in {"destroyed", "idle"} :
        /\ owner' = [Idle EXCEPT !.at = a, !.op = owner.op]
        /\ a = "destroyed" <=> owner.op = "destroy"
  BY Zenon DEF Return
<1>3. owner'.at = a /\ owner'.op = owner.op
  BY Zenon, <1>0, <1>2, OwnerReturns
<1>4. owner.fresh = {} /\ owner'.fresh = {}
  BY <1>0, <1>1, <1>3 DEF OwnerOK
<1>5. Due = 0 /\ Due' = 0 /\ Pending = 0 /\ Pending' = 0
  BY <1>1, <1>3, Numbers DEF Due, Pending
<1>6. Settled'
  BY Zenon, <1>0, <1>1, <1>3, <1>5, Numbers, SameSettled
<1>7. /\ Cardinality(threadList) = Wanted /\ Len(stoppedThreads) = 0
      /\ Ending => threadsToStop = 0
  BY Zenon, <1>1, AtReturn
<1>8. stoppedThreads = <<>>
  BY <1>7 DEF Types, PoolTypeOK
<1>9. CASE Joining /\ Open
  <2>1. Joining'
    BY Zenon, <1>1, <1>3, <1>4, <1>5, <1>9, Numbers, SameJoining
  <2>2. ~Stopping
    BY Zenon, <1>1, <1>9 DEF Open
  <2>3. Open'
    BY Zenon, <1>2, <1>3, <2>2 DEF Open, Stopping
  <2>4. fatal' = "none"
    BY Zenon, <1>0, <1>7, <1>8, <2>2 DEF Return, Stopping
  <2> QED  BY Zenon, <1>6, <2>1, <2>3, <2>4 DEF Good, Mode
<1>10. CASE Ending /\ Closed
  <2>1. Ending'
    BY Zenon, <1>1, <1>3, <1>10, SameEnding
  <2>2. Stopping
    BY Zenon, <1>1, <1>10 DEF Closed
  <2>3. Closed'
    BY Zenon, <1>2, <1>3, <2>2 DEF Closed, Stopping
  <2>4. fatal' = "none"
    BY Zenon, <1>0, <1>7, <1>8, <1>10 DEF Return
  <2> QED  BY Zenon, <1>6, <2>1, <2>3, <2>4 DEF Good, Mode
<1> QED  BY Zenon, <1>0, <1>1, <1>9, <1>10 DEF Mode


LEMMA OwnerGood ==
  ASSUME Types, Types', Listed, ~goesOn, Debt >= 0, Good, Owner
  PROVE  Good'
BY Zenon, AddThreadsGood, StartupGood, RemoveThreadsGood, StopThreadsGood,
   AddPoisonGood, UnlockListGood, JoinStoppedGood, ReturnGood DEF Owner

(* What the pool owes is never negative, even if the owner goes on.        *)
LEMMA OwnerDebt ==
  ASSUME Types, Listed, Debt >= 0, Owner
  PROVE  Debt' >= 0
<1>1. /\ threadsToStop \in Int /\ Many(where, "countUp") \in Nat
      /\ owner.k \in Nat
  BY Numbers
<1>2. CASE AddThreads
  <2>1. Those(where', "countUp") = Those(where, "countUp")
    BY Zenon, <1>2 DEF AddThreads, Those
  <2> QED  BY Zenon, <1>2, <2>1 DEF AddThreads, Debt, Many
<1>3. CASE JoinStopped
  <2>0. /\ where \in [Workers -> WorkerPlaces]
        /\ stoppedThreads \in Seq(Workers)
    BY DEF Types, PoolTypeOK
  <2>1. where[Head(stoppedThreads)] = "gone" /\ Head(stoppedThreads) \in Workers
    BY <1>3, <2>0 DEF Listed, JoinStopped
  <2>2. Those(where', "countUp") = Those(where, "countUp")
    BY Zenon, <1>3, <2>0, <2>1 DEF JoinStopped, Those
  <2> QED  BY Zenon, <1>3, <2>2 DEF JoinStopped, Debt, Many
<1>4. CASE StopThreads
  BY <1>1, <1>4 DEF StopThreads, WorkerSide, Debt
<1>5. CASE Startup \/ RemoveThreads \/ AddPoison \/ UnlockList \/ Return
  <2>1. UNCHANGED <<threadsToStop, where>>
    BY <1>5 DEF Startup, RemoveThreads, AddPoison, UnlockList, Return,
                WorkerSide, pool
  <2> QED  BY Zenon, <2>1 DEF Debt
<1> QED  BY Zenon, <1>2, <1>3, <1>4, <1>5 DEF Owner

LEMMA OwnerListed ==
  ASSUME Types, Listed, Owner
  PROVE  Listed'
<1>1. CASE Startup \/ RemoveThreads \/ StopThreads \/ AddPoison \/ UnlockList
           \/ Return
  <2>1. UNCHANGED <<where, threadList, stoppedThreads>>
    BY Zenon, <1>1
       DEF Startup, RemoveThreads, StopThreads, AddPoison, UnlockList,
                Return, WorkerSide, pool
  <2> QED  BY Zenon, <2>1, OtherListed
<1> QED  BY Zenon, <1>1, AddThreadsListed, JoinStoppedListed DEF Owner

LEMMA OwnerKept ==
  ASSUME Types, Listed, Kept, Owner
  PROVE  Kept' /\ \A x : Runs(x)' <=> Runs(x)
<1>0. where \in [Workers -> WorkerPlaces] /\ stoppedThreads \in Seq(Workers)
  BY DEF Types, PoolTypeOK
<1>1. CASE AddThreads
  BY Zenon, <1>1, QuietKept DEF AddThreads, history
<1>2. CASE JoinStopped
  <2>1. where[Head(stoppedThreads)] = "gone" /\ Head(stoppedThreads) \in Workers
    BY <1>0, <1>2 DEF Listed, JoinStopped
  <2> QED  BY Zenon, <1>0, <1>2, <2>1, QuietKept DEF JoinStopped
<1>3. CASE Startup \/ RemoveThreads \/ StopThreads \/ UnlockList \/ Return
           \/ (AddPoison /\ UNCHANGED taskQueue)
  <2>1. UNCHANGED <<taskQueue, added, done, where, task>>
    BY <1>3 DEF Startup, RemoveThreads, StopThreads, AddPoison, UnlockList,
                Return, WorkerSide, pool
  <2> QED  BY Zenon, <2>1, QuietKept
<1>4. CASE AddPoison /\ taskQueue' = Append(taskQueue, Poison)
  BY Zenon, <1>4, AppendKept DEF AddPoison, WorkerSide
<1>5. AddPoison => \/ UNCHANGED taskQueue
                   \/ taskQueue' = Append(taskQueue, Poison)
  BY DEF AddPoison
<1> QED  BY Zenon, <1>1, <1>2, <1>3, <1>4, <1>5 DEF Owner

-----------------------------------------------------------------------------
(* What a join owes *)

LEMMA WorkerOwing ==
  ASSUME Types, Kept, Owing, NEW w \in Workers, Worker(w)
  PROVE  Owing'
<1>1. owner' = owner /\ (Stopping' <=> Stopping)
  BY WorkerMoves DEF Stopping
<1>2. SUFFICES ASSUME owner.at \in {"count", "poison", "join"}, ~Stopping,
                      owner.k > 0, NEW x \in owner.owed
               PROVE  x \in done' \/ Runs(x)' \/ Ahead(x)'
  BY Zenon, <1>1 DEF Owing
<1>3. x \in done \/ Runs(x) \/ Ahead(x)
  BY Zenon, <1>2 DEF Owing
<1>4. CASE taskQueue' = taskQueue
           /\ \A y : Runs(y) => y \in done' \/ Runs(y)'
  <2>1. Ahead(x) => Ahead(x)'
    BY Zenon, <1>1, <1>4 DEF Ahead
  <2>2. done \subseteq done'
    BY Zenon, WorkerKept
  <2> QED  BY Zenon, <1>3, <1>4, <2>1, <2>2
<1>5. CASE Take(w)
  <2>1. /\ taskQueue \in Seq(Tasks \cup {Poison}) /\ taskQueue # <<>>
        /\ taskQueue' = Tail(taskQueue) /\ done' = done
    BY Zenon, <1>5 DEF Types, PoolTypeOK, Take
  <2>2. /\ Len(taskQueue) \in Nat /\ Len(taskQueue') = Len(taskQueue) - 1
        /\ Head(taskQueue) = taskQueue[1]
        /\ \A j \in 1..Len(taskQueue') : taskQueue'[j] = taskQueue[j + 1]
    BY <2>1
  <2>3. x # Poison
    BY Zenon, PoolAssumption DEF Types, OwnerOK, OwnerType
  <2>4. ASSUME Ahead(x) PROVE Runs(x)' \/ Ahead(x)'
    <3>1. PICK j \in 1..Len(taskQueue) :
            /\ taskQueue[j] = x
            /\ \/ owner.at \in {"count", "poison"} /\ owner.i = 0
               \/ \E l \in 1..Len(taskQueue) : j < l /\ taskQueue[l] = Poison
      BY Zenon, <2>4 DEF Ahead
    <3>2. CASE j = 1
      BY Zenon, <1>5, <2>2, <2>3, <3>1, <3>2, TakeKept
    <3>3. CASE j # 1
      <4>1. j - 1 \in 1..Len(taskQueue') /\ taskQueue'[j - 1] = x
        BY <2>2, <3>1, <3>3
      <4>2. ASSUME NEW l \in 1..Len(taskQueue), j < l, taskQueue[l] = Poison
            PROVE  /\ l - 1 \in 1..Len(taskQueue') /\ j - 1 < l - 1
                   /\ taskQueue'[l - 1] = Poison
        BY <2>2, <3>3, <4>2
      <4>3. \/ owner'.at \in {"count", "poison"} /\ owner'.i = 0
            \/ \E l \in 1..Len(taskQueue') :
                 j - 1 < l /\ taskQueue'[l] = Poison
        BY Zenon, <1>1, <3>1, <4>2
      <4> QED  BY Zenon, <4>1, <4>3 DEF Ahead
    <3> QED  BY Zenon, <3>2, <3>3
  <2>5. Runs(x) => Runs(x)'
    BY Zenon, <1>5, TakeKept
  <2> QED  BY Zenon, <1>3, <2>1, <2>4, <2>5
<1> QED  BY Zenon, <1>4, <1>5, WorkerKept

(* A task or poison at the end of the queue.                               *)
LEMMA AppendAhead ==
  ASSUME Types, NEW x, NEW y, taskQueue' = Append(taskQueue, y), Ahead(x),
         owner'.at = owner.at,
         y = Poison \/ owner' = owner
  PROVE  Ahead(x)'
<1>1. /\ Len(taskQueue) \in Nat /\ Len(taskQueue') = Len(taskQueue) + 1
      /\ taskQueue'[Len(taskQueue) + 1] = y
      /\ \A j \in 1..Len(taskQueue) : taskQueue'[j] = taskQueue[j]
  BY DEF Types, PoolTypeOK
<1>2. PICK j \in 1..Len(taskQueue) :
        /\ taskQueue[j] = x
        /\ \/ owner.at \in {"count", "poison"} /\ owner.i = 0
           \/ \E l \in 1..Len(taskQueue) : j < l /\ taskQueue[l] = Poison
  BY Zenon DEF Ahead
<1>3. j \in 1..Len(taskQueue') /\ taskQueue'[j] = x
  BY <1>1, <1>2
<1>4. CASE y = Poison
  <2>1. /\ Len(taskQueue) + 1 \in 1..Len(taskQueue')
        /\ j < Len(taskQueue) + 1
    BY <1>1
  <2> QED  BY Zenon, <1>1, <1>3, <1>4, <2>1 DEF Ahead
<1>5. CASE owner' = owner
  <2>1. \A l \in 1..Len(taskQueue) :
          l \in 1..Len(taskQueue') /\ taskQueue'[l] = taskQueue[l]
    BY <1>1
  <2> QED  BY Zenon, <1>2, <1>3, <1>5, <2>1 DEF Ahead
<1> QED  BY Zenon, <1>4, <1>5

LEMMA OwnerOwing ==
  ASSUME Types, Types', Listed, Kept, Owing, Owner
  PROVE  Owing'
<1>0. OwnerOK(owner) /\ OwnerOK(owner') /\ owner.i \in Nat /\ owner.k \in Nat
  BY Zenon, Numbers DEF Types
<1>1. \A x : Runs(x)' <=> Runs(x)
  BY Zenon, OwnerKept
<1>2. CASE AddThreads
  <2>1. owner'.at = "startup"
    <3>1. PICK new \in SUBSET Workers :
                 owner' = [owner EXCEPT !.at = "startup", !.fresh = new]
      BY Zenon, <1>2 DEF AddThreads
    <3> QED  BY Zenon, <1>0, <1>2, <3>1, OwnerStartup DEF AddThreads
  <2> QED  BY Zenon, <2>1 DEF Owing
<1>3. CASE Startup
  <2>1. Became(owner', "join", owner.k, owner.i, owner.owed)
    BY Zenon, <1>0, <1>3, OwnerStarted DEF Startup
  <2>2. owner'.k = 0
    BY Zenon, <1>0, <1>3, <2>1 DEF Became, OwnerOK, Startup
  <2> QED  BY <2>2 DEF Owing
<1>4. CASE RemoveThreads
  <2>1. Cardinality(threadList) - Wanted \in Nat /\ owner.at = "lock"
    BY <1>4, WantedType DEF RemoveThreads
  <2>2. added \ done \in SUBSET Tasks
    BY DEF Types, PoolTypeOK
  <2>3. PICK k \in Nat, s \in SUBSET Tasks :
               k = Cardinality(threadList) - Wanted /\ s = added \ done
    BY Zenon, <2>1, <2>2
  <2>4. owner' = [owner EXCEPT !.at = "count", !.k = k, !.owed = s]
    BY Zenon, <1>4, <2>3 DEF RemoveThreads
  <2>5. Became(owner', "count", k, 0, s)
    BY Zenon, <1>0, <2>1, <2>4, OwnerCount
  <2>6. owner'.at = "count" /\ owner'.i = 0 /\ owner'.owed = added \ done
    BY Zenon, <2>3, <2>5 DEF Became
  <2>7. \A x \in owner'.owed :
          Runs(x) \/ \E j \in 1..Len(taskQueue) : taskQueue[j] = x
    BY Zenon, <2>6 DEF Kept
  <2>8. taskQueue' = taskQueue
    BY <1>4 DEF RemoveThreads
  <2>9. \A x \in owner'.owed : Runs(x)' \/ Ahead(x)'
    BY Zenon, <1>1, <2>6, <2>7, <2>8 DEF Ahead
  <2> QED  BY Zenon, <2>9 DEF Owing
<1>5. CASE StopThreads
  <2>1. Became(owner', "poison", owner.k, 0, owner.owed)
    BY Zenon, <1>0, <1>5, OwnerPoison DEF StopThreads
  <2>2. /\ owner'.at = "poison" /\ owner'.i = 0 /\ owner'.k = owner.k
        /\ owner'.owed = owner.owed /\ (Stopping' <=> Stopping)
        /\ owner.at = "count" /\ taskQueue' = taskQueue /\ done' = done
    BY Zenon, <1>5, <2>1 DEF Became, Stopping, StopThreads, WorkerSide
  <2>3. \A x : Ahead(x) => Ahead(x)'
    BY Zenon, <2>2 DEF Ahead
  <2> QED  BY Zenon, <1>1, <2>2, <2>3 DEF Owing
<1>6. CASE AddPoison /\ owner' = [owner EXCEPT !.i = @ + 1]
           /\ taskQueue' = Append(taskQueue, Poison)
  <2>1. Became(owner', owner.at, owner.k, owner.i + 1, owner.owed)
    BY <1>0, <1>6, OwnerOneOn DEF AddPoison
  <2>2. /\ owner'.at = owner.at /\ owner'.k = owner.k /\ owner.at = "poison"
        /\ owner'.owed = owner.owed /\ (Stopping' <=> Stopping) /\ done' = done
    BY Zenon, <1>6, <2>1 DEF Became, Stopping, AddPoison, WorkerSide
  <2>3. \A x : Ahead(x) => Ahead(x)'
    BY Zenon, <1>6, <2>2, AppendAhead
  <2> QED  BY Zenon, <1>1, <2>2, <2>3 DEF Owing
<1>7. CASE AddPoison /\ \E a \in {"terminated", "idle", "failed"} :
             owner' = [Idle EXCEPT !.at = a]
  <2>1. PICK a \in {"terminated", "idle", "failed"} :
               owner' = [Idle EXCEPT !.at = a]
    BY Zenon, <1>7
  <2>2. owner'.at = a
    BY Zenon, <1>0, <2>1, OwnerThrows
  <2> QED  BY <2>2 DEF Owing
<1>8. CASE UnlockList
  <2>1. Became(owner', "join", owner.k, 0, owner.owed)
    BY Zenon, <1>0, <1>8, OwnerUnlock DEF UnlockList
  <2>2. /\ owner'.at = "join" /\ owner'.k = owner.k /\ owner.at = "poison"
        /\ owner'.owed = owner.owed /\ (Stopping' <=> Stopping)
        /\ taskQueue' = taskQueue /\ done' = done /\ owner.i = owner.k
    BY Zenon, <1>8, <2>1 DEF Became, Stopping, UnlockList, WorkerSide, pool
  <2>3. ASSUME owner.k > 0 PROVE \A x : Ahead(x) => Ahead(x)'
    BY <2>2, <2>3 DEF Ahead
  <2> QED  BY Zenon, <1>1, <2>2, <2>3 DEF Owing
<1>9. CASE JoinStopped
  <2>1. Became(owner', owner.at, owner.k, owner.i + 1, owner.owed)
    BY <1>0, <1>9, OwnerOneOn DEF JoinStopped
  <2>2. /\ owner'.at = "join" /\ owner'.k = owner.k /\ owner.at = "join"
        /\ owner'.owed = owner.owed /\ (Stopping' <=> Stopping)
        /\ taskQueue' = taskQueue /\ done' = done
    BY Zenon, <1>9, <2>1 DEF Became, Stopping, JoinStopped
  <2>3. \A x : Ahead(x) => Ahead(x)'
    BY Zenon, <2>2 DEF Ahead
  <2> QED  BY Zenon, <1>1, <2>2, <2>3 DEF Owing
<1>10. CASE Return
  <2>1. PICK a \in {"destroyed", "idle"} :
          owner' = [Idle EXCEPT !.at = a, !.op = owner.op]
    BY Zenon, <1>10 DEF Return
  <2>2. owner'.at = a
    BY Zenon, <1>0, <2>1, OwnerReturns
  <2> QED  BY Zenon, <2>2 DEF Owing
<1>11. AddPoison => \/ owner' = [owner EXCEPT !.i = @ + 1]
                       /\ taskQueue' = Append(taskQueue, Poison)
                    \/ \E a \in {"terminated", "idle", "failed"} :
                         owner' = [Idle EXCEPT !.at = a]
  BY DEF AddPoison
<1> QED  BY Zenon, <1>2, <1>3, <1>4, <1>5, <1>6, <1>7, <1>8, <1>9, <1>10,
            <1>11 DEF Owner


-----------------------------------------------------------------------------

LEMMA AddInv ==
  ASSUME PoolInv, Running, NEW t \in Tasks, Add(t)
  PROVE  PoolInv'
<1>0. Types /\ Listed /\ Kept /\ Debt >= 0 /\ owner.at # "terminated"
  BY Zenon DEF PoolInv, Running
<1>1. Types'
  BY Zenon, <1>0, OtherTypes
<1>2. /\ UNCHANGED <<threadsToStop, where, threadList, stoppedThreads, task,
                     owner, goesOn, done, fatal>>
      /\ taskQueue' = Append(taskQueue, t) /\ added' = added \cup {t}
  BY Zenon DEF Add
<1>3. Listed' /\ Debt' >= 0
  BY Zenon, <1>0, <1>2, OtherListed DEF Debt
<1>4. Kept' /\ \A x : Runs(x)' <=> Runs(x)
  BY Zenon, <1>0, <1>2, AppendKept
<1>5. ASSUME ~goesOn PROVE Good'
  BY Zenon, <1>0, <1>1, <1>5, AddGood DEF PoolInv, Good
<1>6. ASSUME ~goesOn PROVE Owing'
  <2>1. Owing /\ (Stopping' <=> Stopping)
    BY Zenon, <1>2, <1>6 DEF PoolInv, Stopping
  <2>2. \A x : Ahead(x) => Ahead(x)'
    BY Zenon, <1>0, <1>2, AppendAhead
  <2> QED  BY Zenon, <1>2, <1>4, <2>1, <2>2 DEF Owing
<1> QED  BY Zenon, <1>1, <1>2, <1>3, <1>4, <1>5, <1>6 DEF PoolInv, Good

LEMMA BeginInv ==
  ASSUME PoolInv, Running, NEW op \in Ops \cup {"destroy"},
         NEW n \in 0..Cardinality(Workers), BeginCall(op, n)
  PROVE  PoolInv'
<1>0. Types /\ Listed /\ Kept /\ Debt >= 0
  BY Zenon DEF PoolInv, Running
<1>1. Types'
  BY Zenon, <1>0, OtherTypes
<1>2. UNCHANGED <<taskQueue, threadsToStop, where, threadList, stoppedThreads,
                  task, goesOn, added, done, fatal>>
  BY Zenon DEF BeginCall, pool, WorkerSide
<1>3. Listed' /\ Debt' >= 0
  BY Zenon, <1>0, <1>2, OtherListed DEF Debt
<1>4. Kept'
  BY Zenon, <1>0, <1>2, QuietKept
<1>5. ASSUME ~goesOn PROVE Good'
  BY Zenon, <1>0, <1>1, <1>5, BeginGood DEF PoolInv, Good
<1>6. Owing'
  <2>1. n \in Nat /\ owner' = [Idle EXCEPT !.at = "lock", !.op = op, !.n = n]
    BY DEF BeginCall
  <2>2. owner'.at = "lock"
    BY Zenon, <1>0, <2>1, OwnerBegins DEF Types
  <2> QED  BY <2>2 DEF Owing
<1> QED  BY Zenon, <1>1, <1>2, <1>3, <1>4, <1>5, <1>6 DEF PoolInv, Good

LEMMA ObserverInv ==
  ASSUME PoolInv, Running, AddObserver \/ RemoveObserver
  PROVE  PoolInv'
<1>0. Types /\ Listed /\ Kept /\ Debt >= 0
  BY Zenon DEF PoolInv, Running
<1>1. Types'
  BY Zenon, <1>0, OtherTypes
<1>2. /\ UNCHANGED <<taskQueue, threadsToStop, where, threadList,
                     stoppedThreads, task, goesOn, added, done, fatal, owner>>
      /\ owner.at = "idle"
  BY Zenon DEF AddObserver, RemoveObserver, pool, WorkerSide
<1>3. Listed' /\ Debt' >= 0
  BY Zenon, <1>0, <1>2, OtherListed DEF Debt
<1>4. Kept'
  BY Zenon, <1>0, <1>2, QuietKept
<1>5. ASSUME ~goesOn PROVE Good'
  BY Zenon, <1>0, <1>1, <1>5, ObserverGood DEF PoolInv, Good
<1>6. Owing'
  BY Zenon, <1>2 DEF Owing
<1> QED  BY Zenon, <1>1, <1>2, <1>3, <1>4, <1>5, <1>6 DEF PoolInv, Good

LEMMA WorkerInv ==
  ASSUME PoolInv, Running, NEW w \in Workers, Worker(w)
  PROVE  PoolInv'
<1>0. /\ Types /\ Listed /\ Kept /\ Debt >= 0
      /\ owner.at # "terminated" /\ fatal = "none"
  BY Zenon DEF PoolInv, Running
<1>1. Types'
  BY Zenon, <1>0, WorkerTypes
<1>2. Listed' /\ Kept' /\ goesOn' = goesOn
  BY Zenon, <1>0, <1>1, WorkerListed, WorkerKept, WorkerMoves
<1>3. fatal' = "none" => Debt' >= 0
  BY Zenon, <1>0, <1>1, Balanced
<1>4. ASSUME ~goesOn PROVE Good' /\ Owing'
  BY Zenon, <1>0, <1>1, <1>4, WorkerGood, WorkerOwing DEF PoolInv, Good
<1> QED  BY Zenon, <1>1, <1>2, <1>3, <1>4 DEF PoolInv, Good

LEMMA OwnerInv ==
  ASSUME PoolInv, Running, Owner
  PROVE  PoolInv'
<1>0. Types /\ Listed /\ Kept /\ Debt >= 0
  BY Zenon DEF PoolInv, Running
<1>1. Types' /\ Listed' /\ Kept' /\ Debt' >= 0
  BY Zenon, <1>0, OwnerTypes, OwnerListed, OwnerKept, OwnerDebt
<1>2. goesOn' = goesOn
  BY Zenon
     DEF Owner, AddThreads, Startup, RemoveThreads, StopThreads, AddPoison,
         UnlockList, JoinStopped, Return, WorkerSide
<1>3. ASSUME ~goesOn PROVE Good' /\ Owing'
  BY Zenon, <1>0, <1>1, <1>3, OwnerGood, OwnerOwing DEF PoolInv, Good
<1> QED  BY Zenon, <1>1, <1>2, <1>3 DEF PoolInv, Good

LEMMA StutterInv ==
  ASSUME PoolInv, UNCHANGED poolVars
  PROVE  PoolInv'
<1>1. UNCHANGED <<taskQueue, threadsToStop, isJoin, threadList, stoppedThreads,
                  where, task, owner, goesOn, observing, observed, added, done,
                  fatal>>
  BY Zenon DEF poolVars, pool, history
<1>2. Types' /\ Listed' /\ Kept' /\ Debt' = Debt
  BY Zenon, <1>1 DEF PoolInv, Types, PoolTypeOK, Listed, Kept, Runs, Debt
<1>3. (Settled => Settled') /\ (Owing => Owing')
  BY <1>1, <1>2 DEF Settled, Due, Wanted, Owing, Stopping, Runs, Ahead
<1>4. Mode => Mode'
  BY Zenon, <1>1, <1>2
     DEF Mode, Joining, Pending, Ending, Open, Closed, Stopping
<1> QED  BY Zenon, <1>1, <1>2, <1>3, <1>4 DEF PoolInv

LEMMA InitInv == PoolInit => PoolInv
<1> SUFFICES ASSUME PoolInit PROVE PoolInv
  BY Zenon
<1>1. /\ \A w \in Workers : where[w] = "none" /\ task[w] = NoTask
      /\ taskQueue = <<>> /\ stoppedThreads = <<>> /\ threadList = {}
      /\ threadsToStop = 0 /\ fatal = "none" /\ added = {} /\ done = {}
      /\ observing = FALSE
  BY Zenon DEF PoolInit
<1>2. /\ owner.at = "idle" /\ owner.op = "none" /\ owner.k = 0 /\ owner.i = 0
      /\ owner.fresh = {} /\ OwnerOK(owner)
  BY DEF PoolInit, Idle, OwnerOK, OwnerType, OwnerPlaces
<1>3. \A p \in WorkerPlaces \ {"none"} : Those(where, p) = {}
                                         /\ Many(where, p) = 0
  <2>1. \A p \in WorkerPlaces \ {"none"} : Those(where, p) = {}
    BY Zenon, <1>1 DEF Those
  <2> QED  BY Zenon, <2>1, ManyType
<1>4. Poisons(taskQueue) = 0
  <2>1. taskQueue \in Seq(Tasks) /\ \A j \in 1..Len(taskQueue) : FALSE
    BY <1>1
  <2>2. \A j \in 1..Len(taskQueue) : taskQueue[j] # Poison
    BY Zenon, <2>1
  <2> QED  BY Zenon, <2>1, <2>2, PoisonType
<1>5. Debt = 0 /\ Due = 0 /\ Pending = 0
  BY <1>1, <1>2, <1>3 DEF Debt, Due, Pending, WorkerPlaces
<1>6. Types
  BY <1>2, PoolAssumption
     DEF PoolInit, Types, PoolTypeOK, WorkerPlaces
<1>7. Listed /\ Kept /\ Owing
  BY <1>1, <1>2 DEF Listed, Kept, Owing
<1>8. Settled
  BY SMTT(20), <1>1, <1>2, <1>3, <1>5 DEF Settled, WorkerPlaces
<1>9. Mode
  BY SMTT(20), <1>1, <1>2, <1>3, <1>4, <1>5
     DEF Mode, Joining, Open, WorkerPlaces
<1> QED  BY <1>1, <1>5, <1>6, <1>7, <1>8, <1>9 DEF PoolInv

LEMMA NextInv == PoolInv /\ [PoolNext]_poolVars => PoolInv'
<1> SUFFICES ASSUME PoolInv, [PoolNext]_poolVars PROVE PoolInv'
  BY Zenon
<1>1. CASE UNCHANGED poolVars
  BY Zenon, <1>1, StutterInv
<1>2. CASE PoolNext
  BY Zenon, <1>2, StutterInv, WorkerInv, AddInv, BeginInv, OwnerInv,
     ObserverInv
     DEF PoolNext, Stopped
<1> QED  BY Zenon, <1>1, <1>2

(* The invariant says what PoolSound does.                                 *)
LEMMA InvIsSound == PoolInv => PoolSound
<1> SUFFICES ASSUME PoolInv PROVE PoolSound
  OBVIOUS
<1>1. PoolTypeOK /\ ChecksHold
  BY Zenon DEF PoolInv, Types, ChecksHold
<1>2. StopsNoMoreThanAsked
  BY Zenon DEF PoolInv, StopsNoMoreThanAsked, Debt, Many, Those
<1>3. ObserverIsCurrent
  <2>1. SUFFICES ASSUME owner.at = "idle", observing, ~goesOn, owner.op # "stop"
                 PROVE  observed = threadList
    BY Zenon DEF ObserverIsCurrent
  <2>2. Types /\ Settled /\ Debt >= 0 /\ Joining
    BY Zenon, <2>1 DEF PoolInv, Mode, Closed
  <2>3. Due = 0 /\ owner.fresh = {}
    BY Zenon, <2>1, <2>2 DEF Due, Types, OwnerOK
  <2>4. Those(where, "leave") = {}
    BY Zenon, <2>1, <2>2, <2>3, NothingDue
  <2> QED  BY Zenon, <2>1, <2>2, <2>3, <2>4 DEF Joining
<1> QED  BY Zenon, <1>1, <1>2, <1>3 DEF PoolSound

(* For any threads, tasks, capacity and calls: the checks in threadRun, at *)
(* the end of setNumThreads, join and stop and in the destructor hold, no  *)
(* more threads leave than stopThreads asked to, and until stop() an       *)
(* observer knows the threads of the pool between calls.                   *)
THEOREM PoolSoundHolds == PoolSpec => []PoolSound
<1>1. PoolSpec => []PoolInv
  BY InitInv, NextInv, PTL DEF PoolSpec
<1> QED  BY <1>1, InvIsSound, PTL

(* For any threads, tasks, capacity and calls: join(), and                 *)
(* setNumThreads(0), return only when every task added before them has     *)
(* run, unless an earlier call threw or was a stop().                      *)
THEOREM JoinRunsEverythingHolds == PoolSpec => JoinRunsEverything
<1> DEFINE Ran == owner.at = "join" /\ owner'.at = "idle" /\ owner.k > 0
                    /\ ~goesOn /\ ~Stopping /\ Wanted = 0
                  => owner.owed \subseteq done
<1>1. ASSUME PoolInv, [PoolNext]_poolVars PROVE Ran
  <2>1. SUFFICES ASSUME owner.at = "join", owner'.at = "idle", owner.k > 0,
                        ~goesOn, ~Stopping, Wanted = 0,
                        NEW x \in owner.owed
                 PROVE  x \in done
    BY Zenon
  <2>2. Types /\ Listed /\ Good /\ Owing /\ Debt >= 0 /\ OwnerOK(owner)
    BY Zenon, <1>1, <2>1 DEF PoolInv, Good, Types
  <2>3. Return
    <3>1. owner' # owner
      BY Zenon, <2>1
    <3>2. \E y : Owner \/ (Worker(y) /\ y \in Workers)
      BY Zenon, <1>1, <2>1, <3>1
         DEF PoolNext, poolVars, Stopped, Add, BeginCall,
           AddObserver, RemoveObserver
    <3>3. Owner
      BY Zenon, <2>2, <3>1, <3>2, WorkerMoves
    <3>4. ~JoinStopped
      <4>1. SUFFICES ASSUME JoinStopped PROVE FALSE
        OBVIOUS
      <4>2. Became(owner', owner.at, owner.k, owner.i + 1, owner.owed)
        BY <2>2, <4>1, OwnerOneOn DEF JoinStopped
      <4> QED  BY Zenon, <2>1, <4>2 DEF Became
    <3> QED  BY Zenon, <2>1, <3>3, <3>4
                DEF Owner, AddThreads, Startup, RemoveThreads,
                StopThreads, AddPoison, UnlockList
  <2>4. Cardinality(threadList) = 0 /\ (Joining /\ Open => Poisons(taskQueue) = 0)
    BY Zenon, <2>1, <2>2, <2>3, AtReturn DEF Return
  <2>5. Joining /\ Open
    BY Zenon, <2>1, <2>2 DEF Good, Mode, Closed
  <2>6. ~Runs(x)
    BY Zenon, <2>2, <2>4, WantedType DEF Runs, Listed
  <2>7. ~Ahead(x)
    <3>1. taskQueue \in Seq(Tasks \cup {Poison})
      BY Zenon, <2>2 DEF Types, PoolTypeOK
    <3>2. \A j \in 1..Len(taskQueue) : taskQueue[j] # Poison
      BY Zenon, <2>4, <2>5, <3>1, PoisonType
    <3> QED  BY Zenon, <2>1, <3>2 DEF Ahead
  <2> QED  BY Zenon, <2>1, <2>2, <2>6, <2>7 DEF Owing
<1>2. PoolInv /\ [PoolNext]_poolVars => [Ran]_poolVars
  BY Zenon, <1>1
<1> HIDE DEF Ran
<1>3. PoolSpec => [][Ran]_poolVars
  BY <1>2, InitInv, NextInv, PTL DEF PoolSpec
<1> QED  BY <1>3 DEF JoinRunsEverything, Ran

=============================================================================
