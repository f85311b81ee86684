----------------------------- MODULE MPMCQueue -----------------------------
(***************************************************************************)
(* MPMCQueue and detail::SingleElementQueue of                             *)
(* accelerator/thread/MPMCQueue.h.  Each load and compare_exchange of a    *)
(* ticket dispenser is a step.  A slot's TurnSequencer is the turn it is   *)
(* at, and waitForTurn a guard: the module TurnSequencer shows that a      *)
(* waiter whose turn comes is let through.  Both sides of the queue run    *)
(* the same code on their own dispenser, so a call has a side.             *)
(***************************************************************************)
EXTENDS Integers, Sequences

CONSTANTS
  Threads, Values, Nil,
  capacity,      \* capacity_
  stride,        \* stride_
  KindSets,      \* sets of the kinds of call that are made together
  MaxTickets     \* bound: tickets each dispenser hands out

Slots == 0..(capacity - 1)
Sides == {"push", "pop"}

ASSUME QueueAssumption ==
  /\ capacity \in Nat \ {0} /\ stride \in Nat \ {0} /\ MaxTickets \in Nat
  /\ Nil \notin Values
  /\ KindSets \subseteq SUBSET {"blocking", "ready", "promised", "size"}

(* computeStride makes capacity consecutive tickets use different slots;   *)
(* the module Storage checks it.                                           *)
ASSUME StrideAssumption == \A i, j \in Slots :
  (i * stride) % capacity = (j * stride) % capacity => i = j

VARIABLES
  kinds,      \* the kinds of call the threads make
  ticket,     \* pushTicket_ and popTicket_, by side
  turnAt,     \* the turn each slot's sequencer_ is at
  contents,   \* contents_ of each slot, Nil when nothing is constructed
  call,       \* each thread's call: its place, arguments and locals
  last,       \* what each thread has read and not used yet
  log         \* history: the elements written, by ticket

vars == <<kinds, ticket, turnAt, contents, call, last, log>>

(* A thread outside any call; ret is what size() returned.  tk and seen    *)
(* are the local copies of the own and the other side's ticket.  Two       *)
(* fields are history: bracketed, that the ticket was still the next one   *)
(* when mayEnqueue or mayDequeue said no, and sizes, the sizes the queue   *)
(* has had since size() was called.                                        *)
Idle(ret) == [pc |-> "idle", side |-> "push", kind |-> "blocking", tk |-> 0,
              seen |-> 0, val |-> Nil, bracketed |-> FALSE, sizes |-> {},
              ret |-> ret]

-----------------------------------------------------------------------------

Other(s) == IF s = "push" THEN "pop" ELSE "push"

idx(k)  == (k * stride) % capacity
turn(k) == k \div capacity

TurnOfUndoubled(s, k) == turn(k) + (IF s = "push" THEN 0 ELSE 1)   \* mutant

(* Even turns are pushes, odd turns are pops.                              *)
TurnOf(s, k) == 2 * turn(k) + (IF s = "push" THEN 0 ELSE 1)

MayByParity(s, k) == turnAt[idx(k)] % 2 = TurnOf(s, k) % 2   \* mutant

(* mayEnqueue and mayDequeue.                                              *)
May(s, k) == turnAt[idx(k)] = TurnOf(s, k)

(* No ticket is left that the other side has promised to serve.            *)
Exhausted(s, own, other) ==
  IF s = "push" THEN own - other >= capacity ELSE own >= other

Size == ticket["push"] - ticket["pop"]

Sizing(t) == call[t].pc \in {"sizeB", "sizeC", "sizeD"}

At(t, s, place) == call[t].pc = place /\ call[t].side = s

(* The thread's call becomes c; nobody takes a ticket.                     *)
Local(t, c) ==
  /\ call' = [call EXCEPT ![t] = c]
  /\ UNCHANGED <<kinds, ticket, turnAt, contents, last, log>>

(* The call c of thread t takes the next ticket.                           *)
TakeTicket(t, c) ==
  /\ ticket[c.side] < MaxTickets
  /\ ticket' = [ticket EXCEPT ![c.side] = @ + 1]
  /\ call' = [u \in Threads |->
       IF u = t THEN [c EXCEPT !.pc = "wait", !.tk = ticket[c.side]]
       ELSE IF Sizing(u)
       THEN [call[u] EXCEPT !.sizes =
               @ \cup {Size + (IF c.side = "push" THEN 1 ELSE -1)}]
       ELSE call[u]]
  /\ log' = IF c.side = "push" THEN Append(log, c.val) ELSE log
  /\ UNCHANGED <<kinds, turnAt, contents, last>>

(* A call begins; a write has an element for argument.                     *)
Calls(s, k, place) ==
  {[Idle(0) EXCEPT !.pc = place, !.side = s, !.kind = k, !.tk = ticket[s],
                   !.val = v] : v \in IF s = "push" THEN Values ELSE {Nil}}

MayCall(t, k) == call[t].pc = "idle" /\ last[t] = Nil /\ k \in kinds

(* The caller of a read uses the element.                                  *)
Use(t) ==
  /\ last[t] # Nil
  /\ last' = [last EXCEPT ![t] = Nil]
  /\ UNCHANGED <<kinds, ticket, turnAt, contents, call, log>>

-----------------------------------------------------------------------------

BlockingWrite(t) == MayCall(t, "blocking") /\
  \E c \in Calls("push", "blocking", "wait") : TakeTicket(t, c)

BlockingRead(t) == MayCall(t, "blocking") /\
  \E c \in Calls("pop", "blocking", "wait") : TakeTicket(t, c)

(* write and read; writeIfNotFull and readIfNotEmpty: the first load of    *)
(* their own ticket.                                                       *)
Write(t) == MayCall(t, "ready") /\
  \E c \in Calls("push", "ready", "check") : Local(t, c)

Read(t) == MayCall(t, "ready") /\
  \E c \in Calls("pop", "ready", "check") : Local(t, c)

WriteIfNotFull(t) == MayCall(t, "promised") /\
  \E c \in Calls("push", "promised", "bound") : Local(t, c)

ReadIfNotEmpty(t) == MayCall(t, "promised") /\
  \E c \in Calls("pop", "promised", "bound") : Local(t, c)

(* May the ticket proceed without blocking?                                *)
Check(t, s) ==
  /\ At(t, s, "check")
  /\ LET may == May(s, call[t].tk) IN
     Local(t, [call[t] EXCEPT
                 !.pc = IF may THEN "cas" ELSE "recheck",
                 !.bracketed = ~may /\ call[t].tk = ticket[s]])

RecheckOmitted(t, s) ==   \* mutant
  At(t, s, "recheck") /\ Local(t, Idle(0))

(* It may not: give up if it is still the next ticket.                     *)
Recheck(t, s) ==
  /\ At(t, s, "recheck")
  /\ Local(t, IF call[t].tk = ticket[s] THEN Idle(0)
              ELSE [call[t] EXCEPT !.pc = "check", !.tk = ticket[s]])

(* The load of the other side's ticket and the test for full or empty.     *)
Bound(t, s) ==
  /\ At(t, s, "bound")
  /\ Local(t, IF Exhausted(s, call[t].tk, ticket[Other(s)]) THEN Idle(0)
              ELSE [call[t] EXCEPT !.pc = "cas"])

(* The compare_exchange; a failing one loads the ticket again.             *)
Cas(t, s, k) ==
  /\ At(t, s, "cas") /\ call[t].kind = k
  /\ \/ call[t].tk = ticket[s] /\ TakeTicket(t, call[t])
     \/ /\ call[t].tk # ticket[s]
        /\ Local(t, [call[t] EXCEPT
                       !.pc = IF k = "ready" THEN "check" ELSE "bound",
                       !.tk = ticket[s]])

TryObtainReadyPushTicket(t) ==
  Check(t, "push") \/ Recheck(t, "push") \/ Cas(t, "push", "ready")

TryObtainReadyPopTicket(t) ==
  Check(t, "pop") \/ Recheck(t, "pop") \/ Cas(t, "pop", "ready")

TryObtainPromisedPushTicket(t) ==
  Bound(t, "push") \/ Cas(t, "push", "promised")

TryObtainPromisedPopTicket(t) ==
  Bound(t, "pop") \/ Cas(t, "pop", "promised")

-----------------------------------------------------------------------------

(* waitForTurn returns: the slot is the thread's.                          *)
WaitForTurn(t) ==
  /\ call[t].pc = "wait"
  /\ May(call[t].side, call[t].tk)
  /\ Local(t, [call[t] EXCEPT !.pc = "in"])

CompleteTurn(k) == turnAt' = [turnAt EXCEPT ![idx(k)] = @ + 1]

(* SingleElementQueue::enqueue: construct the element, complete the turn.  *)
Enqueue(t) ==
  /\ At(t, "push", "in")
  /\ contents' = [contents EXCEPT ![idx(call[t].tk)] = call[t].val]
  /\ CompleteTurn(call[t].tk)
  /\ call' = [call EXCEPT ![t] = Idle(0)]
  /\ UNCHANGED <<kinds, ticket, last, log>>

(* dequeue: move the element out, destroy it, complete the turn.           *)
Dequeue(t) ==
  /\ At(t, "pop", "in")
  /\ last' = [last EXCEPT ![t] = contents[idx(call[t].tk)]]
  /\ contents' = [contents EXCEPT ![idx(call[t].tk)] = Nil]
  /\ CompleteTurn(call[t].tk)
  /\ call' = [call EXCEPT ![t] = Idle(0)]
  /\ UNCHANGED <<kinds, ticket, log>>

(* size(): the loads A, B, C and D.  A reads into tk, B into seen.         *)
SizeA(t) ==
  /\ MayCall(t, "size")
  /\ Local(t, [Idle(0) EXCEPT !.pc = "sizeB", !.kind = "size",
                              !.tk = ticket["push"], !.sizes = {Size}])

SizeB(t) ==
  /\ call[t].pc = "sizeB"
  /\ Local(t, [call[t] EXCEPT !.pc = "sizeC", !.seen = ticket["pop"]])

SizeC(t) ==
  /\ call[t].pc = "sizeC"
  /\ Local(t, IF call[t].tk = ticket["push"]
              THEN Idle(call[t].tk - call[t].seen)
              ELSE [call[t] EXCEPT !.pc = "sizeD", !.tk = ticket["push"]])

SizeD(t) ==
  /\ call[t].pc = "sizeD"
  /\ Local(t, IF call[t].seen = ticket["pop"]
              THEN Idle(call[t].tk - call[t].seen)
              ELSE [call[t] EXCEPT !.pc = "sizeC", !.seen = ticket["pop"]])

Init ==
  /\ kinds \in KindSets
  /\ ticket = [s \in Sides |-> 0]
  /\ turnAt = [i \in Slots |-> 0]
  /\ contents = [i \in Slots |-> Nil]
  /\ call = [t \in Threads |-> Idle(0)]
  /\ last = [t \in Threads |-> Nil]
  /\ log = <<>>

Begin(t) ==
  \/ BlockingWrite(t) \/ Write(t) \/ WriteIfNotFull(t)
  \/ BlockingRead(t) \/ Read(t) \/ ReadIfNotEmpty(t)
  \/ SizeA(t) \/ Use(t)

Continue(t) ==
  \/ TryObtainReadyPushTicket(t) \/ TryObtainPromisedPushTicket(t)
  \/ TryObtainReadyPopTicket(t) \/ TryObtainPromisedPopTicket(t)
  \/ WaitForTurn(t) \/ Enqueue(t) \/ Dequeue(t)
  \/ SizeB(t) \/ SizeC(t) \/ SizeD(t)

Next == \E t \in Threads : Begin(t) \/ Continue(t)

Spec == Init /\ [][Next]_vars

-----------------------------------------------------------------------------

Places == {"idle", "check", "recheck", "bound", "cas", "wait", "in",
           "sizeB", "sizeC", "sizeD"}

CallType ==
  [pc : Places, side : Sides, kind : {"blocking", "ready", "promised", "size"},
   tk : 0..MaxTickets, seen : 0..MaxTickets, val : Values \cup {Nil},
   bracketed : BOOLEAN, sizes : SUBSET Int, ret : Int]

TypeOK ==
  /\ kinds \in KindSets
  /\ ticket \in [Sides -> 0..MaxTickets]
  /\ turnAt \in [Slots -> 0..(2 * MaxTickets)]
  /\ contents \in [Slots -> Values \cup {Nil}]
  /\ call \in [Threads -> CallType]
  /\ last \in [Threads -> Values \cup {Nil}]
  /\ log \in Seq(Values) /\ Len(log) = ticket["push"]

(* Two threads are never at work in one slot: contents_ is not atomic and  *)
(* only the turn protects it.                                              *)
SlotExclusive == \A t, u \in Threads :
  (call[t].pc = "in" /\ call[u].pc = "in" /\ idx(call[t].tk) = idx(call[u].tk))
    => t = u

(* ~SingleElementQueue destroys an element exactly when the slot's         *)
(* uncompleted turn is odd; that is when there is one to destroy.          *)
ConstructedIffOddTurn == \A i \in Slots :
  contents[i] # Nil <=> turnAt[i] % 2 = 1

(* The turns alone keep contents_, which is plain memory, in order.        *)
SlotsSound == TypeOK /\ SlotExclusive /\ ConstructedIffOddTurn

(* A call that returns false does so for a reason that held during the     *)
(* call: the ticket that could not proceed was the next one, or the queue  *)
(* was full (for a read: empty) by the tickets handed out.                 *)
FalseIsTrue == [][\A t \in Threads :
  /\ call[t].pc = "recheck" /\ call'[t].pc = "idle" => call[t].bracketed
  /\ call[t].pc = "bound" /\ call'[t].pc = "idle" =>
       Exhausted(call[t].side, ticket[call[t].side],
                 ticket[Other(call[t].side)])
  ]_vars

(* size() returns a size the queue had at some moment of the call.         *)
SizeIsLinearizable == [][\A t \in Threads :
  Sizing(t) /\ call'[t].pc = "idle" => call'[t].ret \in call[t].sizes]_vars

(* write and read do not block: "the ticket has been pre-validated".  Who  *)
(* has a promised ticket, or one whose counterpart has been taken, waits   *)
(* for somebody: a thread in a call has the turn the slot is at.  So none  *)
(* of them waits for ever.                                                 *)
WaitIsServed == \A t \in Threads : LET c == call[t] IN
  c.pc = "wait" =>
    /\ c.kind = "ready" => May(c.side, c.tk)
    /\ c.kind = "promised" \/ ~Exhausted(c.side, c.tk, ticket[Other(c.side)])
         => \E u \in Threads : /\ call[u].pc \in {"wait", "in"}
                               /\ idx(call[u].tk) = idx(c.tk)
                               /\ May(call[u].side, call[u].tk)

(* An MPMCQueue's slot belongs to one call at a time and holds an element  *)
(* when its turn is odd; whoever waits for a turn that was promised waits  *)
(* for a thread that is on its way to complete it.                         *)
SlotsServed == SlotsSound /\ WaitIsServed

(* A false return of the non-blocking calls of MPMCQueue and the size it   *)
(* reports were true at some moment of the call.                           *)
AnswersTrue == FalseIsTrue /\ SizeIsLinearizable

(* The queue is the FIFO queue of FifoQueue: writes take effect and reads  *)
(* are assigned when they take a ticket.                                   *)
Fifo == INSTANCE FifoQueue WITH
  taken <- ticket["pop"],
  mine  <- [t \in Threads |->
              IF call[t].pc \in {"wait", "in"} /\ call[t].side = "pop"
              THEN call[t].tk ELSE -1]

ImplementsFifo == Fifo!Spec

=============================================================================
