--------------------------- MODULE IOThreadPool ----------------------------
(***************************************************************************)
(* IOThreadPoolExecutor of accelerator/concurrency/IOThreadPoolExecutor.cpp*)
(* with the parts of ThreadPoolExecutor that start, shrink, stop and join  *)
(* it.  Every thread runs an event loop of its own; add hands a task to    *)
(* one of them as a callback.  How the loop sleeps and wakes is the module *)
(* EventLoop.                                                              *)
(*                                                                         *)
(* The callback refers to the local variables of the call of add that made *)
(* it.  Run after that call has returned, it does what was intended, or    *)
(* anything: wild is set and the behaviour is not followed further.        *)
(***************************************************************************)
EXTENDS Naturals, Sequences, FiniteSets

CONSTANTS
  Threads,      \* the threads of the pool
  Adders,       \* other threads that call add
  MaxTasks      \* bound: calls of add

Post == 0       \* the callback that posts the thread's startup baton
Tasks == 1..MaxTasks
Actors == Adders \cup Threads
None == <<>>

VARIABLES
  list,        \* threadList_
  should,      \* shouldRun of each thread
  open,        \* the thread has an event loop
  halt,        \* stop_ of that loop
  callbacks,   \* callbacks_ of that loop
  batch,       \* the callbacks it has swapped out and not run
  running,     \* the task it is in, or Post
  pending,     \* pendingTasks
  at,          \* where each thread is
  once,        \* it is in loopOnce()
  posted,      \* its startup baton
  call,        \* add of each actor: <<step, thread, task>> or None
  issued,      \* number of tasks made
  frames,      \* tasks whose call of add has not returned
  ran,         \* how often each task has run
  isJoin,      \* isJoin_
  owner,       \* where the owner of the pool is
  victims,     \* the threads it is removing
  untold,      \* those of them it has not stopped
  wild         \* a callback has used a dead variable

threadVars == <<open, batch, running, at, once, posted>>
ownerVars == <<list, should, isJoin, owner, victims, untold>>
addVars == <<call, issued>>
vars == <<threadVars, halt, callbacks, pending, ownerVars, addVars, frames, ran,
          wild>>

-----------------------------------------------------------------------------
(* threadListLock_: add holds it shared, the owner exclusively while it    *)
(* starts threads and while it tells them to stop.                         *)

WriteLocked == owner \in {"starting", "telling", "stopping"}
ReadLocked == \E a \in Actors : call[a] # None

-----------------------------------------------------------------------------
(* add *)

(* A thread of the pool keeps its tasks while it is in the list; others    *)
(* are handed round.                                                       *)
PickThread(a) == IF a \in list THEN {a} ELSE list

(* Called from outside, or by the task a thread is in.                     *)
MayAdd(a) == a \in Threads => at[a] = "call" /\ running[a] # Post

AddUnlocked(a) ==   \* mutant
  /\ call[a] = None /\ issued < MaxTasks /\ MayAdd(a)
  /\ list # {}
  /\ issued' = issued + 1
  /\ frames' = frames \cup {issued + 1}
  /\ \E t \in PickThread(a) :
       /\ pending' = [pending EXCEPT ![t] = @ + 1]
       /\ call' = [call EXCEPT ![a] = <<"push", t, issued + 1>>]
  /\ UNCHANGED <<threadVars, halt, callbacks, ownerVars, ran, wild>>

(* Pick a thread and count the task.  With no thread left, add throws.     *)
Add(a) ==
  /\ call[a] = None /\ issued < MaxTasks /\ MayAdd(a)
  /\ ~WriteLocked
  /\ list # {}
  /\ issued' = issued + 1
  /\ frames' = frames \cup {issued + 1}
  /\ \E t \in PickThread(a) :
       /\ pending' = [pending EXCEPT ![t] = @ + 1]
       /\ call' = [call EXCEPT ![a] = <<"push", t, issued + 1>>]
  /\ UNCHANGED <<threadVars, halt, callbacks, ownerVars, ran, wild>>

AddCallback(a) ==
  /\ call[a] # None /\ call[a][1] = "push"
  /\ callbacks' = [callbacks EXCEPT ![call[a][2]] = Append(@, call[a][3])]
  /\ call' = [call EXCEPT ![a][1] = "return"]
  /\ UNCHANGED <<threadVars, halt, pending, ownerVars, issued, frames, ran,
                 wild>>

Return(a) ==
  /\ call[a] # None /\ call[a][1] = "return"
  /\ frames' = frames \ {call[a][3]}
  /\ call' = [call EXCEPT ![a] = None]
  /\ UNCHANGED <<threadVars, halt, callbacks, pending, ownerVars, issued, ran,
                 wild>>

-----------------------------------------------------------------------------
(* threadRun *)

Others == <<ownerVars, addVars, frames>>

Go(t, place) == at' = [at EXCEPT ![t] = place]

(* The thread makes its event loop and the callback that posts its baton.  *)
Start(t) ==
  /\ at[t] = "new"
  /\ open' = [open EXCEPT ![t] = TRUE]
  /\ callbacks' = [callbacks EXCEPT ![t] = Append(@, Post)]
  /\ Go(t, "while")
  /\ UNCHANGED <<batch, running, once, posted, halt, pending, Others, ran,
                 wild>>

(* while (shouldRun) loop();                                               *)
While(t) ==
  /\ at[t] = "while"
  /\ Go(t, IF should[t] THEN "loop" ELSE IF isJoin THEN "drain" ELSE "shut")
  /\ once' = [once EXCEPT ![t] = FALSE]
  /\ UNCHANGED <<open, batch, running, posted, halt, callbacks, pending, Others,
                 ran, wild>>

(* if (isJoin_) while (pendingTasks > 0) loopOnce();                       *)
Drain(t) ==
  /\ at[t] = "drain"
  /\ Go(t, IF pending[t] > 0 THEN "loop" ELSE "shut")
  /\ once' = [once EXCEPT ![t] = TRUE]
  /\ UNCHANGED <<open, batch, running, posted, halt, callbacks, pending, Others,
                 ran, wild>>

(* The top of a pass through the loop: it is stopped, or it swaps out the  *)
(* callbacks.                                                              *)
Pass(t) ==
  /\ at[t] = "loop"
  /\ \/ halt[t] /\ Go(t, "exit") /\ UNCHANGED <<callbacks, batch>>
     \/ /\ ~halt[t]
        /\ batch' = [batch EXCEPT ![t] = callbacks[t]]
        /\ callbacks' = [callbacks EXCEPT ![t] = <<>>]
        /\ Go(t, "call")
  /\ UNCHANGED <<open, running, once, posted, halt, pending, Others, ran, wild>>

(* The function add wrapped, up to the task, or the startup callback.      *)
Call(t) ==
  /\ at[t] = "call" /\ batch[t] # <<>> /\ running[t] = Post
  /\ LET k == Head(batch[t]) IN
     \/ /\ k = Post
        /\ posted' = [posted EXCEPT ![t] = TRUE]
        /\ batch' = [batch EXCEPT ![t] = Tail(@)]
        /\ UNCHANGED <<running, ran, wild>>
     \/ /\ k # Post
        /\ running' = [running EXCEPT ![t] = k]
        /\ ran' = [ran EXCEPT ![k] = @ + 1]
        /\ batch' = [batch EXCEPT ![t] = Tail(@)]
        /\ UNCHANGED <<posted, wild>>
     \/ /\ k # Post /\ k \notin frames
        /\ wild' = TRUE
        /\ UNCHANGED <<batch, running, ran, posted>>
  /\ UNCHANGED <<open, at, once, halt, callbacks, pending, Others>>

(* The rest of it: whatever the task did, it is no longer pending.         *)
Finish(t) ==
  /\ at[t] = "call" /\ running[t] # Post /\ call[t] = None
  /\ running' = [running EXCEPT ![t] = Post]
  /\ pending' = [pending EXCEPT ![t] = @ - 1]
  /\ UNCHANGED <<open, batch, at, once, posted, halt, callbacks, Others, ran,
                 wild>>

(* The callbacks are called and the poll returns.                          *)
Poll(t) ==
  /\ at[t] = "call" /\ batch[t] = <<>> /\ running[t] = Post
  /\ Go(t, IF once[t] THEN "exit" ELSE "loop")
  /\ UNCHANGED <<open, batch, running, once, posted, halt, callbacks, pending,
                 Others, ran, wild>>

(* The loop clears its stop_ and returns.                                  *)
Exit(t) ==
  /\ at[t] = "exit"
  /\ halt' = [halt EXCEPT ![t] = FALSE]
  /\ Go(t, IF once[t] THEN "drain" ELSE "while")
  /\ UNCHANGED <<open, batch, running, once, posted, callbacks, pending, Others,
                 ran, wild>>

(* Under eventLoopShutdownMutex_ the event loop goes.                      *)
Shut(t) ==
  /\ at[t] = "shut"
  /\ open' = [open EXCEPT ![t] = FALSE]
  /\ Go(t, "done")
  /\ UNCHANGED <<batch, running, once, posted, halt, callbacks, pending, Others,
                 ran, wild>>

-----------------------------------------------------------------------------
(* The owner: constructor, setNumThreads to fewer threads, join and stop.  *)

Rest == <<threadVars, callbacks, pending, addVars, frames, ran, wild>>

(* addThreads returns when every new thread has posted its baton.          *)
Started ==
  /\ owner = "starting"
  /\ \A t \in list : posted[t]
  /\ owner' = "idle"
  /\ UNCHANGED <<Rest, halt, list, should, isJoin, victims, untold>>

(* removeThreads: some threads, or all of them, joining; all, stopping.    *)
Remove(join, V) ==
  /\ owner = "idle" /\ ~ReadLocked
  /\ V # {} /\ (~join => V = list)
  /\ isJoin' = join
  /\ victims' = V /\ untold' = V
  /\ owner' = "telling"
  /\ UNCHANGED <<Rest, halt, list, should>>

TellThread(t) ==
  /\ owner = "telling" /\ t \in untold
  /\ should' = [should EXCEPT ![t] = FALSE]
  /\ owner' = "stopping"
  /\ UNCHANGED <<Rest, halt, list, isJoin, victims, untold>>

(* Under eventLoopShutdownMutex_, stop() for a loop that is still there.   *)
StopLoop(t) ==
  /\ owner = "stopping" /\ t \in untold /\ ~should[t]
  /\ halt' = IF open[t] THEN [halt EXCEPT ![t] = TRUE] ELSE halt
  /\ untold' = untold \ {t}
  /\ owner' = "telling"
  /\ UNCHANGED <<Rest, list, should, isJoin, victims>>

(* The threads leave the list and the lock is released.                    *)
StopThreads ==
  /\ owner = "telling" /\ untold = {}
  /\ list' = list \ victims
  /\ owner' = "joining"
  /\ UNCHANGED <<Rest, halt, should, isJoin, victims, untold>>

JoinStoppedThreads ==
  /\ owner = "joining"
  /\ \A t \in victims : at[t] = "done"
  /\ owner' = "idle"
  /\ UNCHANGED <<Rest, halt, list, should, isJoin, victims, untold>>

-----------------------------------------------------------------------------

Init ==
  /\ list = Threads
  /\ should = [t \in Threads |-> TRUE]
  /\ open = [t \in Threads |-> FALSE] /\ halt = [t \in Threads |-> FALSE]
  /\ callbacks = [t \in Threads |-> <<>>] /\ batch = [t \in Threads |-> <<>>]
  /\ running = [t \in Threads |-> Post] /\ pending = [t \in Threads |-> 0]
  /\ at = [t \in Threads |-> "new"] /\ once = [t \in Threads |-> FALSE]
  /\ posted = [t \in Threads |-> FALSE]
  /\ call = [a \in Actors |-> None] /\ issued = 0 /\ frames = {}
  /\ ran = [k \in Tasks |-> 0]
  /\ isJoin = FALSE /\ owner = "starting" /\ victims = {} /\ untold = {}
  /\ wild = FALSE

AddNext(a) == ~wild /\ (AddCallback(a) \/ Return(a))

ThreadNext(t) ==
  /\ ~wild
  /\ \/ Start(t) \/ While(t) \/ Drain(t) \/ Pass(t) \/ Call(t) \/ Finish(t)
     \/ Poll(t) \/ Exit(t) \/ Shut(t)

OwnerNext ==
  /\ ~wild
  /\ \/ Started \/ StopThreads \/ JoinStoppedThreads
     \/ \E t \in Threads : TellThread(t) \/ StopLoop(t)

Next ==
  \/ \E a \in Actors : (~wild /\ Add(a)) \/ AddNext(a)
  \/ \E t \in Threads : ThreadNext(t)
  \/ OwnerNext
  \/ \E join \in BOOLEAN, V \in SUBSET list : ~wild /\ Remove(join, V)

Spec == Init /\ [][Next]_vars

(* The owner, the callers of add and the pool's threads keep running, and  *)
(* tasks end.                                                              *)
FairSpec ==
  /\ Spec /\ WF_vars(OwnerNext)
  /\ \A a \in Adders : WF_vars(AddNext(a))
  /\ \A t \in Threads : WF_vars(ThreadNext(t) \/ AddNext(t))

-----------------------------------------------------------------------------

TypeOK ==
  /\ list \subseteq Threads /\ victims \subseteq Threads
  /\ untold \subseteq victims
  /\ {isJoin, wild} \subseteq BOOLEAN
  /\ {should, open, halt, once, posted} \subseteq [Threads -> BOOLEAN]
  /\ callbacks \in [Threads -> Seq(Tasks \cup {Post})]
  /\ batch \in [Threads -> Seq(Tasks \cup {Post})]
  /\ running \in [Threads -> Tasks \cup {Post}]
  /\ pending \in [Threads -> Nat]
  /\ at \in [Threads -> {"new", "while", "loop", "call", "exit", "drain",
                         "shut", "done"}]
  /\ issued \in 0..MaxTasks /\ frames \subseteq Tasks
  /\ ran \in [Tasks -> Nat]
  /\ owner \in {"starting", "idle", "telling", "stopping", "joining"}

Elements(s) == {s[i] : i \in 1..Len(s)} \ {Post}

(* The tasks that thread t owes.                                           *)
Owed(t) ==
  Elements(callbacks[t]) \cup Elements(batch[t]) \cup ({running[t]} \ {Post})
    \cup {call[a][3] : a \in {b \in Actors : call[b] # None
                                /\ call[b][1] = "push" /\ call[b][2] = t}}

(* pendingTasks, on which a joined thread relies, counts the tasks that    *)
(* are in the thread's hands or on their way to it.                        *)
PendingCounts == \A t \in Threads : pending[t] = Cardinality(Owed(t))

(* add never hands a task to a thread whose event loop is gone.            *)
LoopIsThere == \A a \in Actors :
  call[a] # None /\ call[a][1] = "push" => open[call[a][2]]

(* No task runs twice, and none disappears while its thread lives.         *)
OnceEach == \A k \in 1..issued :
  ran[k] + Cardinality({t \in Threads : k \in Owed(t) \ {running[t]}}) = 1

(* A thread that is joined leaves no task behind.                          *)
JoinRunsAll == isJoin => \A t \in victims : at[t] = "done" => pending[t] = 0

(* While no callback has used a dead variable: tasks are counted, handed   *)
(* to live event loops, run once, and all run when their thread is joined. *)
PoolSound ==
  TypeOK /\ PendingCounts /\ LoopIsThere /\ OnceEach /\ JoinRunsAll

(* setNumThreads, join and stop return.                                    *)
CallReturns == owner = "telling" ~> owner = "idle" \/ wild

(* "stop() behaves like join() because outstanding tasks belong to the     *)
(* event base": after either call no task is left.                         *)
StopBehavesLikeJoin ==
  owner = "idle" /\ list = {} /\ ~wild => \A k \in 1..issued : ran[k] = 1

=============================================================================
