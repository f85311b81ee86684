----------------------------- MODULE MCWakeups -----------------------------
(***************************************************************************)
(* The parts of the library in which threads sleep, wait for or serve each *)
(* other: BlockingQueue, Baton, EventLoop with and without a stop(), the   *)
(* logger with its queue and its thread, the queue by itself with two      *)
(* sweeping threads, and calls on a skip list that lock, wait and retry.   *)
(* They do not interact: each behaviour runs one of them, so that their    *)
(* states add up and do not multiply.                                      *)
(***************************************************************************)
EXTENDS BlockingQueue

CONSTANTS
  Posters, Nobody, MaxLife,      \* Baton
  Adders, PipeSize, MaxItems,    \* EventLoop
  LogThread, Null, SplitSize     \* Logger

VARIABLES
  part,                                                       \* what runs
  state, waiter, timed, poster, before, life, by, missed,     \* Baton
  pending, batch, handed, worked, waking, pipe, polled, stop, stopping,
  loop, once,                                                 \* EventLoop
  head, next, ins, swp, order, strands, trues,                \* Logger
  async, isOpen, file, bak, lost, up, writer, logged, out,
  nodes, top, size, rec, held, call, during                   \* SkipList

B == INSTANCE Baton
L == INSTANCE EventLoop
       WITH adding <- waking, PollTimesOut <- FALSE, Stops <- FALSE
S == INSTANCE EventLoop
       WITH adding <- waking, PollTimesOut <- TRUE, Stops <- TRUE
Loggers == {"one", "two"}
G == INSTANCE Logger
       WITH Callers <- Loggers, th <- writer,
            Quota <- [c \in Loggers |-> IF c = "one" THEN 2 ELSE 1]
A == INSTANCE AtomicLinkedList
       WITH Inserters <- Loggers, Sweepers <- {"first", "second"},
            Elems <- G!Messages
K == INSTANCE SkipList
       WITH Threads <- {1, 2}, MaxHeight <- 2, head <- top, th <- call,
            seen <- during

batonVars == <<state, waiter, timed, poster, before, life, by, missed>>
loopVars == <<pending, batch, handed, worked, waking, pipe, polled, stop,
              stopping, loop, once>>
restOfLog == <<async, isOpen, file, bak, lost, up, writer, logged, out>>
logVars == <<head, next, ins, swp, order, strands, trues, restOfLog>>
skipVars == <<nodes, top, size, rec, held, call, during>>
allVars == <<part, queueVars, batonVars, loopVars, logVars, skipVars>>

OfQueue(Act) == /\ part = "queue" /\ Act
                /\ UNCHANGED <<part, batonVars, loopVars, logVars, skipVars>>
OfBaton(Act) == /\ part = "baton" /\ Act
                /\ UNCHANGED <<part, queueVars, loopVars, logVars, skipVars>>
AnyLoop(Act) ==
  Act /\ UNCHANGED <<part, queueVars, batonVars, logVars, skipVars>>
OfLoop(Act) == part = "loop" /\ AnyLoop(Act)
OfStopped(Act) == part = "stopped loop" /\ AnyLoop(Act)
OfLog(Act) == /\ part = "log" /\ up /\ Act
              /\ UNCHANGED <<part, queueVars, batonVars, loopVars, skipVars>>
OfList(Act) == /\ part = "list" /\ Act
               /\ UNCHANGED <<part, queueVars, batonVars, loopVars, restOfLog,
                              skipVars>>
OfSkip(Act) == /\ part = "skip" /\ Act
               /\ UNCHANGED <<part, queueVars, batonVars, loopVars, logVars>>

(* Two calls on short lists of nodes <<key, height>>.                      *)
O(op, k) == [op |-> op, key |-> k, assigned |-> FALSE]
Calls == {O(op, k) : op \in {"add", "remove"}, k \in {1, 2}}
         \cup {O("find", 2), O("lower", 1), O("scan", 0), O("skip", 2)}
SkipInit == \E a, b \in Calls :
              \/ K!Init(<<<<1, 1>>, <<3, 1>>>>, 1, 1, <<a, b>>)
              \/ K!Init(<<<<1, 1>>, <<2, 2>>>>, 2, 1, <<a, b>>)
SkipRests == K!Init(<<>>, 1, 1, [t \in {1, 2} |-> O("none", 0)])

PartsInit ==
  /\ part \in {"queue", "baton", "loop", "stopped loop", "log", "list", "skip"}
  /\ QueueInit /\ B!Init /\ L!Init /\ G!LogInit
  /\ IF part = "list" THEN A!Init ELSE G!Init
  /\ IF part = "skip" THEN SkipInit ELSE SkipRests

PartsNext ==
  \/ OfQueue(QueueNext)
  \/ OfBaton(B!Next)
  \/ OfLoop(L!Next)
  \/ OfStopped(S!Next)
  \/ OfLog(G!Next)
  \/ OfList(A!Next)
  \/ OfSkip(K!Next)

(* The fairness of the parts, each as its own module states it.            *)
PartsSpec ==
  /\ PartsInit /\ [][PartsNext]_allVars
  /\ WF_allVars(OfBaton(B!WaiterNext))
  /\ \A p \in Posters : WF_allVars(OfBaton(B!PosterNext(p)))
  /\ WF_allVars(OfLoop(L!Loop))
  /\ WF_allVars(OfLoop(L!Enter(FALSE)))
  /\ WF_allVars(OfStopped(S!Loop))
  /\ WF_allVars(OfStopped(S!Enter(FALSE)))
  /\ WF_allVars(OfStopped(S!SetStop))
  /\ \A a \in Adders :
       WF_allVars(OfLoop(L!Wake(a))) /\ WF_allVars(OfStopped(S!Wake(a)))
  /\ WF_allVars(OfLog(G!Sweep \/ G!SweepNext \/ G!Step(LogThread)))
  /\ \A t \in Loggers : WF_allVars(OfLog(G!Insert(t) \/ G!Step(t)))
  /\ \A t \in {1, 2} : WF_allVars(OfSkip(K!Step(t) /\ K!Watch))

-----------------------------------------------------------------------------

(* post, wait and reset of a baton meet the states their assertions        *)
(* expect, and a wait returns true exactly for a post in this lifetime of  *)
(* the baton; the event loop does not sleep beside an item without a wake  *)
(* to come.                                                                *)
SleepSound == B!BatonSound /\ L!LoopSound

(* A waiter whose baton is posted returns.                                 *)
PostWakesWaiter == B!PostWakesWaiter

(* The event loop works items off in the order they were added, every one  *)
(* of them and without any timeout, and returns when it is stopped.        *)
LoopServes == L!InOrder /\ L!ItemIsWorkedOff /\ S!StopEndsLoop

(* The logger writes each message once, in order, to files that hold all   *)
(* of them and hardly outgrow splitSize_; its queue hands out every        *)
(* message once and in order, or in the opposite order where asked to,     *)
(* whatever inserting and sweeping threads meet.                           *)
LogRight == IF part = "list" THEN A!ListComplete ELSE G!LogRight

(* Every message logged is written, and every call on a skip list returns, *)
(* whatever it has to wait for or to retry.                                *)
CallsServed == G!LogWritten /\ (part = "skip" => K!CallsEnd)

=============================================================================
