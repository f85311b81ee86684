----------------------------- MODULE EventLoop -----------------------------
(***************************************************************************)
(* EventLoop of accelerator/event/EventLoop.cpp with its Waker: threads    *)
(* hand events and callbacks to the loop and wake it through a pipe, and   *)
(* another thread stops it.  What the loop does with an event it has taken *)
(* over is in EventDispatch.                                               *)
(***************************************************************************)
EXTENDS Naturals, Sequences

CONSTANTS
  Adders,         \* threads that call addEvent and addCallback
  PipeSize,       \* bytes the waker's pipe holds
  PollTimesOut,   \* poll_.wait has a timeout, as by default
  Stops,          \* bound: stop() is called, once; otherwise never
  MaxItems        \* bound: events, and callbacks, handed to the loop

Kinds == {"event", "callback"}

VARIABLES
  pending,    \* events_ and callbacks_: numbers of items, in order
  batch,      \* what the loop has swapped out and not worked off
  handed,     \* how many items of each kind were added
  worked,     \* how many of them the loop has worked off
  adding,     \* where each adder is: "idle" or "wake"
  pipe,       \* bytes in the waker's pipe
  polled,     \* the pipe is in the epoll set
  stop,       \* stop_
  stopping,   \* where stop() is: "idle", "set" or "done"
  loop,       \* the loop's place; "out" outside loop() and loopOnce()
  once        \* it is in loopOnce()

vars == <<pending, batch, handed, worked, adding, pipe, polled, stop, stopping,
          loop, once>>

-----------------------------------------------------------------------------
(* Other threads *)

LoopSide == <<batch, worked, loop, once>>

(* addEvent, addCallback: under the lock, then wake.                       *)
AddItem(a, k) ==
  /\ adding[a] = "idle" /\ handed[k] < MaxItems
  /\ handed' = [handed EXCEPT ![k] = @ + 1]
  /\ pending' = [pending EXCEPT ![k] = Append(@, handed[k] + 1)]
  /\ adding' = [adding EXCEPT ![a] = "wake"]
  /\ UNCHANGED <<LoopSide, pipe, polled, stop, stopping>>

AddEvent(a)    == AddItem(a, "event")
AddCallback(a) == AddItem(a, "callback")

(* waker_.wake(): a write to a pipe that does not block.                   *)
Wake(a) ==
  /\ adding[a] = "wake"
  /\ adding' = [adding EXCEPT ![a] = "idle"]
  /\ pipe' = IF pipe < PipeSize THEN pipe + 1 ELSE pipe
  /\ UNCHANGED <<LoopSide, pending, handed, polled, stop, stopping>>

(* stop(): the pipe leaves the epoll set, then stop_ is set.               *)
Stop ==
  /\ Stops /\ stopping = "idle"
  /\ polled' = FALSE
  /\ stopping' = "set"
  /\ UNCHANGED <<LoopSide, pending, handed, adding, pipe, stop>>

SetStop ==
  /\ stopping = "set"
  /\ stop' = TRUE
  /\ stopping' = "done"
  /\ UNCHANGED <<LoopSide, pending, handed, adding, pipe, polled>>

-----------------------------------------------------------------------------
(* loopBody *)

OtherSide == <<handed, adding, polled, stopping>>

Go(place) == loop' = place

(* loop() and loopOnce().                                                  *)
Enter(o) ==
  /\ loop = "out"
  /\ once' = o
  /\ Go("test")
  /\ UNCHANGED <<OtherSide, pending, batch, worked, pipe, stop>>

(* The loop condition.                                                     *)
Test ==
  /\ loop = "test"
  /\ Go(IF stop THEN "exit" ELSE "event")
  /\ UNCHANGED <<OtherSide, pending, batch, worked, pipe, stop, once>>

(* Swap out the pending items of one kind.                                 *)
Swap(k) ==
  /\ loop = k /\ batch = <<>>
  /\ batch' = pending[k]
  /\ pending' = [pending EXCEPT ![k] = <<>>]
  /\ Go(IF k = "event" THEN "dispatch" ELSE "call")
  /\ UNCHANGED <<OtherSide, worked, pipe, stop, once>>

WorkingOn(k) == loop = IF k = "event" THEN "dispatch" ELSE "call"

(* Dispatch the events, call the callbacks, one after the other.           *)
Work(k) ==
  /\ WorkingOn(k)
  /\ \/ /\ batch # <<>>
        /\ worked' = [worked EXCEPT ![k] = Head(batch)]
        /\ batch' = Tail(batch)
        /\ UNCHANGED loop
     \/ /\ batch = <<>>
        /\ Go(IF k = "event" THEN "callback" ELSE "poll")
        /\ UNCHANGED <<batch, worked>>
  /\ UNCHANGED <<OtherSide, pending, pipe, stop, once>>

(* poll_.wait returns the pipe; then it is read until it is empty.         *)
PollReady ==
  /\ loop = "poll" /\ polled /\ pipe > 0
  /\ Go("consume")
  /\ UNCHANGED <<OtherSide, pending, batch, worked, pipe, stop, once>>

Again == IF once THEN "exit" ELSE "test"

Consume ==
  /\ loop = "consume"
  /\ pipe' = 0
  /\ Go(Again)
  /\ UNCHANGED <<OtherSide, pending, batch, worked, stop, once>>

(* poll_.wait returns without the pipe: its timeout, a signal, or another  *)
(* descriptor.                                                             *)
PollTimeout ==
  /\ loop = "poll" /\ PollTimesOut
  /\ Go(Again)
  /\ UNCHANGED <<OtherSide, pending, batch, worked, pipe, stop, once>>

ExitStopped ==   \* mutant
  /\ loop = "exit"
  /\ Go("out")
  /\ UNCHANGED <<OtherSide, pending, batch, worked, pipe, stop, once>>

(* loopBody leaves stop_ cleared.                                          *)
Exit ==
  /\ loop = "exit"
  /\ stop' = FALSE
  /\ Go("out")
  /\ UNCHANGED <<OtherSide, pending, batch, worked, pipe, once>>

Init ==
  /\ pending = [k \in Kinds |-> <<>>] /\ batch = <<>>
  /\ handed = [k \in Kinds |-> 0] /\ worked = [k \in Kinds |-> 0]
  /\ adding = [a \in Adders |-> "idle"]
  /\ pipe = 0 /\ polled = TRUE
  /\ stop = FALSE /\ stopping = "idle"
  /\ loop = "out" /\ once = FALSE

Loop ==
  \/ Test \/ PollReady \/ Consume \/ PollTimeout \/ Exit
  \/ \E k \in Kinds : Swap(k) \/ Work(k)

Next ==
  \/ \E a \in Adders : AddEvent(a) \/ AddCallback(a) \/ Wake(a)
  \/ Stop \/ SetStop
  \/ \E o \in BOOLEAN : Enter(o)
  \/ Loop

Spec == Init /\ [][Next]_vars

(* The loop, add and stop keep running, callbacks return, and the owner of *)
(* the loop enters it again.                                               *)
FairSpec ==
  /\ Spec
  /\ WF_vars(Loop) /\ WF_vars(Enter(FALSE)) /\ WF_vars(SetStop)
  /\ \A a \in Adders : WF_vars(Wake(a))

-----------------------------------------------------------------------------

TypeOK ==
  /\ pending \in [Kinds -> Seq(1..MaxItems)] /\ batch \in Seq(1..MaxItems)
  /\ handed \in [Kinds -> 0..MaxItems] /\ worked \in [Kinds -> 0..MaxItems]
  /\ adding \in [Adders -> {"idle", "wake"}]
  /\ pipe \in 0..PipeSize
  /\ {polled, stop, once} \subseteq BOOLEAN
  /\ stopping \in {"idle", "set", "done"}
  /\ loop \in {"out", "test", "event", "dispatch", "callback", "call", "poll",
               "consume", "exit"}

(* The loop does not sleep beside an item: the pipe is readable, or the    *)
(* thread that added the item is about to write to it.  stop() gives this  *)
(* up by taking the pipe out of the epoll set.                             *)
SleeperHasWake ==
  loop = "poll" /\ polled /\ (\E k \in Kinds : pending[k] # <<>>)
    => pipe > 0 \/ \E a \in Adders : adding[a] = "wake"

(* The loop sleeps only when it may.                                       *)
LoopSound == TypeOK /\ SleeperHasWake

(* Events, and callbacks, are worked off in the order they were added,     *)
(* none twice and none left out, across swaps and restarts of the loop.    *)
InOrder == [][\A k \in Kinds :
  worked'[k] # worked[k] => worked'[k] = worked[k] + 1]_vars

(* Every item is worked off.                                               *)
ItemIsWorkedOff == \A k \in Kinds : \A i \in 1..MaxItems :
  handed[k] >= i ~> worked[k] >= i

(* stop() makes the loop return, whether it was in loop() or not; it does  *)
(* not wake a loop that waits, which therefore needs its poll timeout.     *)
StopEndsLoop == (stopping = "done" /\ stop) ~> loop = "out"

=============================================================================
