------------------------- MODULE ThreadedExecutor --------------------------
(***************************************************************************)
(* ThreadedExecutor of accelerator/concurrency/ThreadedExecutor.cpp, with  *)
(* the Waiter of accelerator/thread/Waiter.h that its control thread       *)
(* sleeps on.  Every task gets a thread of its own, which the control      *)
(* thread starts and joins.                                                *)
(*                                                                         *)
(* The thread refers to the task's function in a local queue of the        *)
(* control thread.  Once that queue is gone the function may still work,   *)
(* or anything may happen: wild is set and the behaviour is not followed   *)
(* further.                                                                *)
(***************************************************************************)
EXTENDS Naturals, Sequences, FiniteSets

CONSTANTS
  Callers,      \* threads outside the executor that call add
  MaxJobs       \* bound: calls of add

Jobs == 1..MaxJobs
Nothing == 0

VARIABLES
  stopping,     \* stopping_
  signal,       \* signal_ of the Waiter controlw_
  enqueued,     \* enqueued_
  finished,     \* finished_
  started,      \* running_: jobs whose threads were started and not joined
  control,      \* where the control thread is
  seen,         \* what it read of stopping_
  joining,      \* threads it has still to join in this pass
  launching,    \* jobs it has still to start in this pass
  functions,    \* jobs whose function still exists
  thread,       \* where the thread of each job is
  done,         \* how often each job's function has run
  adding,       \* job each caller, or job's thread, is adding, and where
  made,         \* number of jobs
  closing,      \* where the destructor is
  aborted,      \* a check failed
  astray        \* a thread has used a function that is gone

controlVars == <<started, control, seen, joining, launching, functions>>
vars == <<stopping, signal, enqueued, finished, controlVars, thread, done,
          adding, made, closing, aborted, astray>>

-----------------------------------------------------------------------------
(* Waiter *)

Notify == signal' = TRUE

(* wait(timeout) returns when signalled or when the timeout passes, and    *)
(* clears the signal.                                                      *)
Wait == signal' = FALSE

-----------------------------------------------------------------------------
(* add, called from outside while the executor exists, or by a job.        *)

Adding == Callers \cup Jobs
Idle == <<"idle", Nothing>>
MayAdd(a) == IF a \in Callers THEN closing = "open" ELSE thread[a] = "func"

AddRest == <<controlVars, thread, done, stopping, finished, closing, astray>>

(* add checks that the executor is not being stopped.                      *)
Add(a) ==
  /\ adding[a] = Idle /\ MayAdd(a) /\ made < MaxJobs
  /\ \/ /\ stopping
        /\ aborted' = TRUE
        /\ UNCHANGED <<adding, made>>
     \/ /\ ~stopping
        /\ made' = made + 1
        /\ adding' = [adding EXCEPT ![a] = <<"push", made + 1>>]
        /\ UNCHANGED aborted
  /\ UNCHANGED <<AddRest, signal, enqueued>>

AddPush(a) ==
  /\ adding[a][1] = "push"
  /\ enqueued' = Append(enqueued, adding[a][2])
  /\ adding' = [adding EXCEPT ![a][1] = "notify"]
  /\ UNCHANGED <<AddRest, signal, made, aborted>>

AddNotify(a) ==
  /\ adding[a][1] = "notify"
  /\ Notify
  /\ adding' = [adding EXCEPT ![a] = Idle]
  /\ UNCHANGED <<AddRest, enqueued, made, aborted>>

-----------------------------------------------------------------------------
(* control *)

ControlRest == <<stopping, done, adding, made, closing, aborted, astray>>

WaitForSignal ==
  /\ control = "wait" /\ signal
  /\ Wait
  /\ control' = "load"
  /\ UNCHANGED <<ControlRest, enqueued, finished, started, seen, joining,
                 launching, functions, thread>>

WaitTimesOut ==
  /\ control = "wait" /\ ~signal
  /\ Wait
  /\ control' = "load"
  /\ UNCHANGED <<ControlRest, enqueued, finished, started, seen, joining,
                 launching, functions, thread>>

(* controlPerformAll reads stopping_ first.                                *)
LoadStopping ==
  /\ control = "load"
  /\ seen' = stopping
  /\ control' = "swap finished"
  /\ UNCHANGED <<ControlRest, signal, enqueued, finished, started, joining,
                 launching, functions, thread>>

(* controlJoinFinishedThreads                                              *)
SwapFinished ==
  /\ control = "swap finished"
  /\ joining' = finished /\ finished' = <<>>
  /\ control' = "join"
  /\ UNCHANGED <<ControlRest, signal, enqueued, started, seen, launching,
                 functions, thread>>

JoinThread ==
  /\ control = "join" /\ joining # <<>>
  /\ thread[Head(joining)] = "exited"
  /\ thread' = [thread EXCEPT ![Head(joining)] = "joined"]
  /\ started' = started \ {Head(joining)}
  /\ joining' = Tail(joining)
  /\ UNCHANGED <<ControlRest, signal, enqueued, finished, control, seen,
                 launching, functions>>

(* controlLaunchEnqueuedTasks; the functions are in its local queue, which *)
(* goes when it returns.                                                   *)
SwapEnqueued ==
  /\ control = "join" /\ joining = <<>>
  /\ launching' = enqueued /\ enqueued' = <<>>
  /\ control' = "launch"
  /\ UNCHANGED <<ControlRest, signal, finished, started, seen, joining,
                 functions, thread>>

LaunchThread ==
  /\ control = "launch" /\ launching # <<>>
  /\ thread' = [thread EXCEPT ![Head(launching)] = "new"]
  /\ started' = started \cup {Head(launching)}
  /\ functions' = functions \cup {Head(launching)}
  /\ launching' = Tail(launching)
  /\ UNCHANGED <<ControlRest, signal, enqueued, finished, control, seen,
                 joining>>

DecideWithoutThreads ==   \* mutant
  /\ control = "launch" /\ launching = <<>>
  /\ functions' = {}
  /\ control' = IF seen THEN "out" ELSE "wait"
  /\ UNCHANGED <<ControlRest, signal, enqueued, finished, started, seen,
                 joining, launching, thread>>

(* The launched functions go; the control thread goes on unless it saw     *)
(* stopping_ and no thread is left.                                        *)
Decide ==
  /\ control = "launch" /\ launching = <<>>
  /\ functions' = {}
  /\ control' = IF seen /\ started = {} THEN "out" ELSE "wait"
  /\ UNCHANGED <<ControlRest, signal, enqueued, finished, started, seen,
                 joining, launching, thread>>

-----------------------------------------------------------------------------
(* work *)

WorkRest == <<controlVars, stopping, enqueued, adding, made, closing, aborted>>

(* Start or end of func(): with the function gone, anything may happen.    *)
RunFunc(k, from, to) ==
  /\ thread[k] = from /\ adding[k] = Idle
  /\ \/ /\ thread' = [thread EXCEPT ![k] = to]
        /\ done' = IF to = "func" THEN [done EXCEPT ![k] = @ + 1] ELSE done
        /\ UNCHANGED astray
     \/ /\ k \notin functions
        /\ astray' = TRUE
        /\ UNCHANGED <<thread, done>>
  /\ UNCHANGED <<WorkRest, signal, finished>>

BeginFunc(k) == RunFunc(k, "new", "func")
EndFunc(k)   == RunFunc(k, "func", "push")

PushFinished(k) ==
  /\ thread[k] = "push"
  /\ finished' = Append(finished, k)
  /\ thread' = [thread EXCEPT ![k] = "notify"]
  /\ UNCHANGED <<WorkRest, signal, done, astray>>

ExitSilently(k) ==   \* mutant
  /\ thread[k] = "notify"
  /\ thread' = [thread EXCEPT ![k] = "exited"]
  /\ UNCHANGED <<WorkRest, signal, finished, done, astray>>

NotifyAndExit(k) ==
  /\ thread[k] = "notify"
  /\ Notify
  /\ thread' = [thread EXCEPT ![k] = "exited"]
  /\ UNCHANGED <<WorkRest, finished, done, astray>>

-----------------------------------------------------------------------------
(* The destructor, called when no caller is inside add.                    *)

CloseRest == <<controlVars, enqueued, finished, thread, done, adding, made,
               astray>>

Close ==
  /\ closing = "open" /\ \A c \in Callers : adding[c] = Idle
  /\ stopping' = TRUE
  /\ closing' = "notify"
  /\ UNCHANGED <<CloseRest, signal, aborted>>

CloseNotify ==
  /\ closing = "notify"
  /\ Notify
  /\ closing' = "join"
  /\ UNCHANGED <<CloseRest, stopping, aborted>>

(* Joins the control thread and checks that nothing is left.               *)
CloseJoin ==
  /\ closing = "join" /\ control = "out"
  /\ closing' = "closed"
  /\ aborted' = (started # {} \/ finished # <<>>)
  /\ UNCHANGED <<CloseRest, signal, stopping>>

-----------------------------------------------------------------------------

Init ==
  /\ stopping = FALSE /\ signal = FALSE /\ enqueued = <<>> /\ finished = <<>>
  /\ started = {} /\ control = "wait" /\ seen = FALSE
  /\ joining = <<>> /\ launching = <<>> /\ functions = {}
  /\ thread = [k \in Jobs |-> "none"] /\ done = [k \in Jobs |-> 0]
  /\ adding = [a \in Adding |-> Idle] /\ made = 0
  /\ closing = "open" /\ aborted = FALSE /\ astray = FALSE

Sane == ~aborted /\ ~astray

Control ==
  /\ Sane
  /\ \/ WaitForSignal \/ LoadStopping \/ SwapFinished \/ JoinThread
     \/ SwapEnqueued \/ LaunchThread \/ Decide

Work(k) ==
  /\ Sane
  /\ BeginFunc(k) \/ EndFunc(k) \/ PushFinished(k) \/ NotifyAndExit(k)

AddGoesOn(a) == Sane /\ (AddPush(a) \/ AddNotify(a))
CloseGoesOn == Sane /\ (CloseNotify \/ CloseJoin)

Next ==
  \/ Control \/ CloseGoesOn
  \/ Sane /\ (WaitTimesOut \/ Close)
  \/ \E k \in Jobs : Work(k)
  \/ \E a \in Adding : (Sane /\ Add(a)) \/ AddGoesOn(a)

Spec == Init /\ [][Next]_vars

(* All threads keep running, and no function runs for ever.  The Waiter's  *)
(* timeout is not needed.                                                  *)
FairSpec ==
  /\ Spec /\ WF_vars(Control) /\ WF_vars(CloseGoesOn)
  /\ \A k \in Jobs : WF_vars(Work(k) \/ AddGoesOn(k))
  /\ \A c \in Callers : WF_vars(AddGoesOn(c))

-----------------------------------------------------------------------------

TypeOK ==
  /\ {stopping, signal, seen, aborted, astray} \subseteq BOOLEAN
  /\ {enqueued, finished, joining, launching} \subseteq Seq(Jobs)
  /\ started \subseteq Jobs /\ functions \subseteq Jobs
  /\ control \in {"wait", "load", "swap finished", "join", "launch", "out"}
  /\ thread \in [Jobs -> {"none", "new", "func", "push", "notify", "exited",
                          "joined"}]
  /\ done \in [Jobs -> 0..1] /\ made \in 0..MaxJobs
  /\ closing \in {"open", "notify", "join", "closed"}

(* running_ holds exactly the threads that are not joined, so that every   *)
(* finished thread finds its handle there.                                 *)
HandlesKept ==
  started = {k \in Jobs : thread[k] \notin {"none", "joined"}}

(* When the destructor returns, its checks have held, every job that was   *)
(* ever added has run and its thread is joined: also a job added by        *)
(* another job while the destructor began.                                 *)
NothingLeft == closing = "closed" =>
  ~aborted /\ \A k \in 1..made : done[k] = 1 /\ thread[k] = "joined"

(* Handles are kept and the destructor leaves nothing behind.              *)
ThreadedSound == TypeOK /\ HandlesKept /\ NothingLeft

(* Every job's thread is joined, and the destructor returns, although the  *)
(* control thread hears of everything through one flag.                    *)
JobsAreJoined ==
  /\ \A k \in Jobs : made >= k ~> thread[k] = "joined" \/ ~Sane
  /\ closing = "notify" ~> closing = "closed" \/ ~Sane

(* "the executor spawns a new thread for that task, runs the task in that  *)
(* thread": while a thread runs a job's function, the function exists.     *)
FunctionOutlivesRun == \A k \in Jobs : thread[k] = "func" => k \in functions

=============================================================================
