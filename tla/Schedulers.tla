----------------------------- MODULE Schedulers -----------------------------
(***************************************************************************)
(* The schedulers of accelerator/scheduler.                                *)
(***************************************************************************)
EXTENDS Naturals, Sequences, FiniteSets, Functions

-----------------------------------------------------------------------------
(***************************************************************************)
(* DAG of accelerator/scheduler/DAG.cpp and the ParallelScheduler that     *)
(* fills and runs one: tasks with dependencies, run by the threads of a    *)
(* pool as their last predecessor finishes, and a caller that waits for    *)
(* the end.  The pool runs each added function once (CPUThreadPool) and    *)
(* survives one that throws (ThreadPoolExecutor::runTask).                 *)
(***************************************************************************)

CONSTANTS
  Nodes,        \* the tasks
  Source, Sink, \* the nodes go() adds
  Pool,         \* threads of the executor
  MaxRepeat,    \* bound: times a dependency is stated
  MaxEdges,     \* bound: dependencies stated
  Unfinished    \* a thread that is in no task

Keys == Nodes \cup {Source, Sink}

VARIABLES
  edges,        \* edges[a][b]: how often b is in the nexts of a
  waitCount,    \* waitCount of each node
  throws,       \* the tasks whose function throws; rigid
  blocking,     \* the argument of run; rigid
  caller,       \* where the caller of run is
  todo,         \* todo[p][b]: entries of b that p, in schedule, has to visit
  queued,       \* how often each task is in the pool's queue
  task,         \* the task each pool thread is in
  calls,        \* how often each function was called
  over,         \* the tasks whose function has returned normally
  raised        \* signal_ of waiter_

graphVars == <<edges, waitCount, throws, blocking, caller, todo, queued, task, calls,
          over, raised>>

NoEdges == [b \in Keys |-> 0]

Into(e, b) == FoldFunction(LAMBDA x, y : x + y, 0, [a \in Keys |-> e[a][b]])

HasPrev(e, b) == \E a \in Keys : e[a][b] > 0

-----------------------------------------------------------------------------
(* go *)

(* hasCycle: take away the edges out of nodes without edges into them, as  *)
(* long as there are such nodes; peeled[n] are the nodes n rounds reach.   *)
HasCycle(e) ==
  LET peeled[n \in 0..Cardinality(Nodes)] ==
        IF n = 0 THEN {k \in Nodes : ~HasPrev(e, k)}
        ELSE {k \in Nodes : \A a \in Nodes : e[a][k] > 0 => a \in peeled[n - 1]}
  IN  \E k \in Nodes \ peeled[Cardinality(Nodes)] :
        \E b \in Nodes : e[k][b] > 0

(* A node of the source, or for the sink, gets one edge.                   *)
WithEnds(e) ==
  [a \in Keys |-> [b \in Keys |->
     IF a = Source /\ b \in Nodes /\ ~HasPrev(e, b) THEN 1
     ELSE IF b = Sink /\ a \in Nodes /\ e[a] = NoEdges THEN 1
     ELSE e[a][b]]]

(* A graph with a cycle makes go throw; otherwise it schedules the source. *)
Run ==
  /\ caller = "start"
  /\ \/ /\ HasCycle(edges)
        /\ caller' = "thrown"
        /\ UNCHANGED <<edges, waitCount, todo>>
     \/ /\ ~HasCycle(edges)
        /\ edges' = WithEnds(edges)
        /\ waitCount' = [b \in Keys |-> Into(WithEnds(edges), b)]
        /\ todo' = [todo EXCEPT ![Source] = WithEnds(edges)[Source]]
        /\ caller' = "schedule"
  /\ UNCHANGED <<throws, blocking, queued, task, calls, over, raised>>

-----------------------------------------------------------------------------
(* schedule, by the caller for the source and by the pool's threads.       *)

VisitEveryTime(p, b) ==   \* mutant
  /\ todo[p][b] > 0
  /\ todo' = [todo EXCEPT ![p][b] = @ - 1]
  /\ waitCount' = [waitCount EXCEPT ![b] = @ - 1]
  /\ queued' = [queued EXCEPT ![b] = @ + 1]
  /\ UNCHANGED <<edges, throws, blocking, caller, task, calls, over, raised>>

(* One entry of nexts: the node whose last predecessor this was goes to    *)
(* the pool.                                                               *)
Visit(p, b) ==
  /\ todo[p][b] > 0
  /\ todo' = [todo EXCEPT ![p][b] = @ - 1]
  /\ waitCount' = [waitCount EXCEPT ![b] = @ - 1]
  /\ queued' = IF waitCount[b] = 1 THEN [queued EXCEPT ![b] = @ + 1] ELSE queued
  /\ UNCHANGED <<edges, throws, blocking, caller, task, calls, over, raised>>

(* run(): the caller waits, whatever blocking says.                        *)
Waits ==
  /\ caller = "schedule" /\ todo[Source] = NoEdges
  /\ caller' = "wait"
  /\ UNCHANGED <<edges, waitCount, throws, blocking, todo, queued, task, calls,
                 over, raised>>

Returns ==
  /\ caller = "wait" /\ raised
  /\ raised' = FALSE
  /\ caller' = "returned"
  /\ UNCHANGED <<edges, waitCount, throws, blocking, todo, queued, task, calls,
                 over>>

-----------------------------------------------------------------------------
(* The pool's threads *)

Take(p, k) ==
  /\ task[p] = Unfinished /\ queued[k] > 0
  /\ queued' = [queued EXCEPT ![k] = @ - 1]
  /\ task' = [task EXCEPT ![p] = k]
  /\ calls' = [calls EXCEPT ![k] = @ + 1]
  /\ UNCHANGED <<edges, waitCount, throws, blocking, caller, todo, over, raised>>

(* Without blocking, the sink's function is empty and calling it throws.   *)
Throws(k) == k \in throws \/ (k = Sink /\ ~blocking)

InFunc(p) == task[p] # Unfinished /\ task[p] \notin over

(* func() throws: schedule() is not called.                                *)
FuncThrows(p) ==
  /\ InFunc(p) /\ Throws(task[p])
  /\ task' = [task EXCEPT ![p] = Unfinished]
  /\ UNCHANGED <<edges, waitCount, throws, blocking, caller, todo, queued, calls,
                 over, raised>>

(* func() returns, and schedule() begins; the sink's notifies the caller.  *)
FuncReturns(p) ==
  /\ InFunc(p) /\ ~Throws(task[p])
  /\ over' = over \cup {task[p]}
  /\ raised' = (raised \/ task[p] = Sink)
  /\ todo' = [todo EXCEPT ![p] = edges[task[p]]]
  /\ UNCHANGED <<edges, waitCount, throws, blocking, caller, queued, task, calls>>

TaskEnds(p) ==
  /\ task[p] \in over /\ todo[p] = NoEdges
  /\ task' = [task EXCEPT ![p] = Unfinished]
  /\ UNCHANGED <<edges, waitCount, throws, blocking, caller, todo, queued, calls,
                 over, raised>>

-----------------------------------------------------------------------------

(* Reference: the nodes that paths of n edges lead to from k.              *)
Reach(e, k) ==
  LET far[n \in Nat] ==
        IF n = 0 THEN {b \in Nodes : e[k][b] > 0}
        ELSE far[n - 1] \cup {b \in Nodes : \E a \in far[n - 1] : e[a][b] > 0}
  IN  far[Cardinality(Nodes)]

Cyclic == \E k \in Nodes : k \in Reach(edges, k)

(* ParallelScheduler::add and setDependency have made a graph e, of which  *)
(* the tasks X throw; run(b) is about to be called.                        *)
Ready(e, X, b) ==
  /\ edges = [x \in Keys |-> [y \in Keys |->
                IF x \in Nodes /\ y \in Nodes THEN e[<<x, y>>] ELSE 0]]
  /\ throws = X /\ blocking = b
  /\ waitCount = NoEdges
  /\ caller = "start"
  /\ todo = [p \in Pool \cup {Source} |-> NoEdges]
  /\ queued = NoEdges
  /\ task = [p \in Pool |-> Unfinished]
  /\ calls = NoEdges
  /\ over = {} /\ raised = FALSE

(* What the tasks of a cyclic graph would do does not matter.              *)
GraphInit ==
  \E e \in {d \in [Nodes \X Nodes -> 0..MaxRepeat] :
             FoldFunction(LAMBDA x, y : x + y, 0, d) <= MaxEdges},
     b \in BOOLEAN, X \in {Y \in SUBSET Nodes : Cardinality(Y) <= 1} :
    /\ Ready(e, X, b)
    /\ Cyclic => throws = {} /\ blocking

Caller ==
  Run \/ Waits \/ Returns \/ \E b \in Keys : Visit(Source, b)

Thread(p) ==
  \/ FuncThrows(p) \/ FuncReturns(p) \/ TaskEnds(p)
  \/ \E k \in Keys : Take(p, k) \/ Visit(p, k)

GraphNext == Caller \/ \E p \in Pool : Thread(p)

GraphSpec == GraphInit /\ [][GraphNext]_graphVars

(* The caller and the pool's threads keep running, and tasks end.          *)
FairGraphSpec == GraphSpec /\ WF_graphVars(Caller) /\ \A p \in Pool : WF_graphVars(Thread(p))

-----------------------------------------------------------------------------

(* go refuses exactly the graphs that have a cycle.                        *)
CyclesRefused ==
  /\ caller = "thrown" => Cyclic
  /\ caller \notin {"start", "thrown"} => ~Cyclic

(* A task starts only when all its predecessors have returned, and no task *)
(* starts twice.                                                           *)
RunsInOrder == \A k \in Nodes \cup {Sink} :
  /\ calls[k] + queued[k] <= 1
  /\ calls[k] + queued[k] = 1 => \A a \in Nodes : edges[a][k] > 0 => a \in over

(* run returns only after every task has returned.                         *)
ReturnsLast == caller = "returned" => Nodes \subseteq over

(* Cycles are refused, and tasks run once, in the order of dependencies,   *)
(* and before run returns.                                                 *)
GraphSound == CyclesRefused /\ RunsInOrder /\ ReturnsLast

(* A blocking run of tasks that do not throw, over a graph without cycles, *)
(* returns.                                                                *)
RunReturns ==
  (caller = "schedule" /\ blocking /\ throws = {}) ~> caller = "returned"

-----------------------------------------------------------------------------
(***************************************************************************)
(* PeriodicScheduler of accelerator/scheduler/PeriodicScheduler.cpp: a     *)
(* thread that looks, every now and then, for tasks whose period has come  *)
(* and hands them to an executor.                                          *)
(***************************************************************************)

CONSTANTS
  Intervals,    \* intervals tasks are added with
  MaxTimed,     \* bound: tasks added
  MaxTime       \* bound: the clock

VARIABLES
  now,          \* the clock
  base,         \* timestamp_
  timed,        \* tasks_: interval and stamp of each
  on,           \* running_
  timer,        \* where the scheduler's thread is; "none" without one
  passed,       \* time since base that this pass works with
  index,        \* the next task of this pass
  locked,       \* the pass holds tasks_ for reading
  due,          \* ghost: for each task, the times it was handed over in this run
  first         \* ghost: the scheduler was never stopped

periodicVars == <<now, base, timed, on, timer, passed, index, locked, due, first>>

Tick ==
  /\ now < MaxTime
  /\ now' = now + 1
  /\ UNCHANGED <<base, timed, on, timer, passed, index, locked, due, first>>

(* add, while no pass holds the tasks.                                     *)
Add(i) ==
  /\ ~locked /\ Len(timed) < MaxTimed
  /\ timed' = Append(timed, [interval |-> i, stamp |-> 0])
  /\ due' = Append(due, <<>>)
  /\ UNCHANGED <<now, base, on, timer, passed, index, locked, first>>

Start ==
  /\ timer = "none" /\ ~on
  /\ on' = TRUE
  /\ timer' = "begin"
  /\ due' = [k \in 1..Len(timed) |-> <<>>]
  /\ UNCHANGED <<now, base, timed, passed, index, locked, first>>

Stop ==
  /\ on
  /\ on' = FALSE
  /\ first' = FALSE
  /\ UNCHANGED <<now, base, timed, timer, passed, index, locked, due>>

(* stop() joins the thread.                                                *)
Join ==
  /\ timer = "end"
  /\ timer' = "none"
  /\ UNCHANGED <<now, base, timed, on, passed, index, locked, due, first>>

(* run                                                                     *)
Begin ==
  /\ timer = "begin"
  /\ base' = now
  /\ timer' = "while"
  /\ UNCHANGED <<now, timed, on, passed, index, locked, due, first>>

While ==
  /\ timer = "while"
  /\ timer' = IF on THEN "pass" ELSE "end"
  /\ UNCHANGED <<now, base, timed, on, passed, index, locked, due, first>>

(* runTasks                                                                *)
Pass ==
  /\ timer = "pass"
  /\ passed' = now - base
  /\ timer' = "lock"
  /\ UNCHANGED <<now, base, timed, on, index, locked, due, first>>

Lock ==
  /\ timer = "lock"
  /\ locked' = TRUE /\ index' = 1
  /\ timer' = "tasks"
  /\ UNCHANGED <<now, base, timed, on, passed, due, first>>

(* The task with its stamp after checkStamp.                               *)
CheckStamp(t, st) == IF st >= t.stamp THEN [t EXCEPT !.stamp = st + 1] ELSE t

RunTask ==
  /\ timer = "tasks" /\ index <= Len(timed)
  /\ LET t == timed[index]
         st == passed \div t.interval
     IN  /\ timed' = [timed EXCEPT ![index] = CheckStamp(t, st)]
         /\ due' = IF st >= t.stamp
                     THEN [due EXCEPT ![index] = Append(@, passed)] ELSE due
  /\ index' = index + 1
  /\ UNCHANGED <<now, base, on, timer, passed, locked, first>>

Unlock ==
  /\ timer = "tasks" /\ index > Len(timed)
  /\ locked' = FALSE
  /\ timer' = "while"
  /\ UNCHANGED <<now, base, timed, on, passed, index, due, first>>

PeriodicInit ==
  /\ now = 0 /\ base = 0 /\ timed = <<>> /\ on = FALSE /\ timer = "none"
  /\ passed = 0 /\ index = 1 /\ locked = FALSE /\ due = <<>> /\ first = TRUE

PeriodicNext ==
  \/ Tick \/ Start \/ Stop \/ Join \/ Begin \/ While \/ Pass \/ Lock \/ RunTask
  \/ Unlock
  \/ \E i \in Intervals : Add(i)

PeriodicSpec == PeriodicInit /\ [][PeriodicNext]_periodicVars

-----------------------------------------------------------------------------

(* No task is handed over twice in one of its periods.                     *)
OncePerPeriod == \A k \in 1..Len(timed) : \A i, j \in 1..Len(due[k]) :
  i < j => due[k][i] \div timed[k].interval < due[k][j] \div timed[k].interval

(* A pass leaves no task behind whose period has begun.  A scheduler that  *)
(* was stopped and started again keeps the old stamps and gives this up.   *)
NoneMissed == first => \A k \in 1..Len(timed) :
  timer = "tasks" /\ k < index => timed[k].stamp > passed \div timed[k].interval

(* Each task is handed over once in every period in which the scheduler    *)
(* looks for it.                                                           *)
PeriodicSound == OncePerPeriod /\ NoneMissed

=============================================================================
