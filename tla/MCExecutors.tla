---------------------------- MODULE MCExecutors ----------------------------
(***************************************************************************)
(* The executors other than the CPU pool, and the schedulers that feed     *)
(* them.  Each behaviour runs one of them, so that their states add up and *)
(* do not multiply.                                                        *)
(***************************************************************************)
EXTENDS Naturals

CONSTANTS
  Threads, Adders,                                    \* of each part
  MaxTasks,                                           \* IOThreadPool
  MaxJobs,                                            \* ThreadedExecutor
  Nodes, Source, Sink, MaxRepeat, MaxEdges,
  Unfinished,                                         \* Schedulers: a graph
  Intervals, MaxTimed, MaxTime                        \* Schedulers: periodic

VARIABLES
  part,                                               \* what runs
  list, should, open, halt, callbacks, batch, running, pending, at, once,
  posted, call, issued, frames, ran, isJoin, owner, victims, untold,
  wild,                                               \* IOThreadPool
  stopping, signal, enqueued, finished, started, control, seen, joining,
  launching, functions, thread, done, adding, made, closing, aborted,
  astray,                                             \* ThreadedExecutor
  edges, waitCount, throws, blocking, caller, todo, queued, task, calls, over,
  raised,                                             \* Schedulers: a graph
  now, base, timed, on, timer, passed, index, locked, due,
  first                                               \* Schedulers: periodic

I == INSTANCE IOThreadPool
T == INSTANCE ThreadedExecutor WITH Callers <- Adders
G == INSTANCE Schedulers WITH Pool <- Threads

ioVars == <<list, should, open, halt, callbacks, batch, running, pending, at,
            once, posted, call, issued, frames, ran, isJoin, owner, victims,
            untold, wild>>
threadedVars == <<stopping, signal, enqueued, finished, started, control, seen,
                  joining, launching, functions, thread, done, adding, made,
                  closing, aborted, astray>>
graphVars == <<edges, waitCount, throws, blocking, caller, todo, queued, task,
               calls, over, raised>>
periodicVars == <<now, base, timed, on, timer, passed, index, locked, due,
                  first>>
allVars == <<part, ioVars, threadedVars, graphVars, periodicVars>>

OfIO ==
  /\ part = "io"
  /\ UNCHANGED <<part, threadedVars, graphVars, periodicVars>>
OfThreaded ==
  /\ part = "threaded"
  /\ UNCHANGED <<part, ioVars, graphVars, periodicVars>>
OfGraph ==
  /\ part = "graph"
  /\ UNCHANGED <<part, ioVars, threadedVars, periodicVars>>
OfPeriodic ==
  /\ part = "periodic"
  /\ UNCHANGED <<part, ioVars, threadedVars, graphVars>>

(* Only the graph has more than one initial state.                         *)
PartsInit ==
  /\ part \in {"io", "threaded", "graph", "periodic"}
  /\ I!Init /\ T!Init /\ G!PeriodicInit
  /\ IF part = "graph" THEN G!GraphInit
     ELSE G!Ready([e \in Nodes \X Nodes |-> 0], {}, TRUE)

PartsNext ==
  \/ OfIO /\ I!Next
  \/ OfThreaded /\ T!Next
  \/ OfGraph /\ G!GraphNext
  \/ OfPeriodic /\ G!PeriodicNext

(* Threads keep running, tasks end, and calls that have begun go on, as    *)
(* each part's module states it.  Only one part runs, so that a fairness   *)
(* condition of each of them makes one condition here.                     *)
Owner ==
  \/ OfIO /\ I!OwnerNext
  \/ OfThreaded /\ T!CloseGoesOn
  \/ OfGraph /\ G!Caller

Adder(a) ==
  \/ OfIO /\ I!AddNext(a)
  \/ OfThreaded /\ T!AddGoesOn(a)

PoolThread(t) ==
  \/ OfIO /\ (I!ThreadNext(t) \/ I!AddNext(t))
  \/ OfGraph /\ G!Thread(t)

JobThread(k) == OfThreaded /\ (T!Work(k) \/ T!AddGoesOn(k))

PartsSpec ==
  /\ PartsInit /\ [][PartsNext]_allVars
  /\ WF_allVars(Owner)
  /\ WF_allVars(OfThreaded /\ T!Control)
  /\ \A a \in Adders : WF_allVars(Adder(a))
  /\ \A t \in Threads : WF_allVars(PoolThread(t))
  /\ \A k \in 1..MaxJobs : WF_allVars(JobThread(k))

-----------------------------------------------------------------------------

(* The IO pool counts its tasks, hands them to event loops that exist,     *)
(* runs none twice, and all of them when their thread is joined.           *)
IOPoolSound == I!PoolSound

(* The threaded executor keeps the handle of every thread, and its         *)
(* destructor leaves no job and no thread behind.                          *)
ThreadedSound == T!ThreadedSound

(* Tasks of a graph run once, in the order of dependencies and before run  *)
(* returns, and cyclic graphs are refused; a periodic task runs once in    *)
(* each period in which the scheduler looks.                               *)
SchedulersSound == G!GraphSound /\ G!PeriodicSound

(* setNumThreads, join and stop of the IO pool return, every job's thread  *)
(* is joined, the threaded executor's destructor returns, and so does a    *)
(* blocking run of a graph whose tasks do not throw.                       *)
WorkEnds == I!CallReturns /\ T!JobsAreJoined /\ G!RunReturns

=============================================================================
