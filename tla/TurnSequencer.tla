--------------------------- MODULE TurnSequencer ----------------------------
(***************************************************************************)
(* detail::TurnSequencer of accelerator/thread/MPMCQueue.h.  One thread    *)
(* waits for each turn, as in MPMCQueue where a turn of a slot belongs to  *)
(* one ticket, so a thread is named by its turn.  The futex word state_ is *)
(* the current turn, TurnMod wide, and a waiter delta that saturates at    *)
(* MaxDelta; a sleeper is woken through channel turn % Channels.           *)
(***************************************************************************)
EXTENDS Integers, FiniteSets

CONSTANTS
  FirstTurn,   \* the constructor's argument
  LastTurn,    \* bound: the last turn anybody waits for
  TurnMod,     \* 2^26: turns state_ can tell apart
  MaxDelta,    \* 63: kWaitersMask
  Channels     \* 32: bits of a futex bitset

ASSUME BoundsAssumption ==
  /\ FirstTurn \in Nat /\ LastTurn \in Nat /\ FirstTurn <= LastTurn
  /\ TurnMod \in Nat \ {0} /\ MaxDelta \in Nat /\ Channels \in Nat \ {0}

(* kTurnShift's comment: the delta must be able to count to 32.            *)
ASSUME DeltaCoversChannels == MaxDelta >= Channels

Turns == FirstTurn..LastTurn

VARIABLES
  state,       \* Futex state_
  seen,        \* each thread's local copy of it: state, then new_state
  at,          \* where each turn's thread is
  completed    \* history: the turn that is running, unwrapped

futexChannel(t) == t % Channels

turnVars == <<state, seen, at, completed>>

encode(turn, delta) ==
  [turn  |-> turn % TurnMod,
   delta |-> IF delta > MaxDelta THEN MaxDelta ELSE delta]

GoTurn(t, to) == at' = [at EXCEPT ![t] = to]

-----------------------------------------------------------------------------

(* waitForTurn is called.  Bound: fewer than TurnMod turns outstanding.    *)
Arrive(t) ==
  /\ at[t] = "away"
  /\ t - completed < TurnMod
  /\ GoTurn(t, "load")
  /\ UNCHANGED <<state, seen, completed>>

(* One try: the turn has come, or spinning goes on (no change), or the     *)
(* spin cutoff is over.                                                    *)
Load(t) ==
  /\ at[t] = "load"
  /\ seen' = [seen EXCEPT ![t] = state]
  /\ GoTurn(t, IF state.turn = t % TurnMod THEN "turn" ELSE "register")
  /\ UNCHANGED <<state, completed>>

(* our_waiter_delta, by unsigned subtraction of shifted turns.             *)
WaiterDelta(t) == (t - seen[t].turn) % TurnMod

RegisterUncounted(t) ==   \* mutant
  /\ at[t] = "register"
  /\ GoTurn(t, "futexWait")
  /\ UNCHANGED <<state, seen, completed>>

Register(t) ==
  /\ at[t] = "register"
  /\ LET new == encode(seen[t].turn, WaiterDelta(t)) IN
     IF WaiterDelta(t) <= seen[t].delta \/ new = seen[t]
     THEN GoTurn(t, "futexWait") /\ UNCHANGED <<state, seen>>
     ELSE IF state = seen[t]
     THEN /\ state' = new
          /\ seen' = [seen EXCEPT ![t] = new]
          /\ GoTurn(t, "futexWait")
     ELSE GoTurn(t, "load") /\ UNCHANGED <<state, seen>>
  /\ UNCHANGED completed

(* The kernel compares the word and sleeps in one step; otherwise the call *)
(* returns VALUE_CHANGED.                                                  *)
FutexWait(t) ==
  /\ at[t] = "futexWait"
  /\ GoTurn(t, IF state = seen[t] THEN "asleep" ELSE "load")
  /\ UNCHANGED <<state, seen, completed>>

(* A signal ends the wait: INTERRUPTED.                                    *)
Interrupt(t) ==
  /\ at[t] = "asleep"
  /\ GoTurn(t, "load")
  /\ UNCHANGED <<state, seen, completed>>

(* completeTurn: the first load, after the owner has used its turn.        *)
CompleteLoad(t) ==
  /\ at[t] = "turn"
  /\ seen' = [seen EXCEPT ![t] = state]
  /\ GoTurn(t, "complete")
  /\ UNCHANGED <<state, completed>>

CompleteNoRetry(t) ==   \* mutant
  /\ at[t] = "complete"
  /\ state' = encode(t + 1, IF seen[t].delta = 0 THEN 0 ELSE seen[t].delta - 1)
  /\ completed' = t + 1
  /\ GoTurn(t, IF seen[t].delta = 0 THEN "done" ELSE "wake")
  /\ UNCHANGED seen

(* Its compare_exchange, which reloads when a waiter registered meanwhile. *)
CompleteTurn(t) ==
  /\ at[t] = "complete"
  /\ IF state = seen[t]
     THEN /\ state' = encode(t + 1,
                             IF state.delta = 0 THEN 0 ELSE state.delta - 1)
          /\ completed' = t + 1
          /\ GoTurn(t, IF state.delta = 0 THEN "done" ELSE "wake")
          /\ UNCHANGED seen
     ELSE /\ seen' = [seen EXCEPT ![t] = state]
          /\ UNCHANGED <<state, at, completed>>

FutexWakeNoRecheck(t) ==   \* mutant
  /\ at[t] = "wake"
  /\ at' = [u \in Turns |->
              IF u = t THEN "done"
              ELSE IF at[u] = "asleep" /\ futexChannel(u) = futexChannel(t + 1)
                   THEN "turn" ELSE at[u]]
  /\ UNCHANGED <<state, seen, completed>>

FutexWake(t) ==
  /\ at[t] = "wake"
  /\ at' = [u \in Turns |->
              IF u = t THEN "done"
              ELSE IF at[u] = "asleep" /\ futexChannel(u) = futexChannel(t + 1)
                   THEN "load" ELSE at[u]]
  /\ UNCHANGED <<state, seen, completed>>

TurnInit ==
  /\ state = encode(FirstTurn, 0)
  /\ seen = [t \in Turns |-> encode(FirstTurn, 0)]
  /\ at = [t \in Turns |-> "away"]
  /\ completed = FirstTurn

Step(t) ==
  \/ Load(t) \/ Register(t) \/ FutexWait(t)
  \/ CompleteLoad(t) \/ CompleteTurn(t) \/ FutexWake(t)

TurnNext == \E t \in Turns : Arrive(t) \/ Step(t) \/ Interrupt(t)

TurnSpec == TurnInit /\ [][TurnNext]_turnVars

(* Threads that are not asleep keep running.  Whether a thread comes for a *)
(* turn, and whether a signal comes, is left open.                         *)
FairTurnSpec == TurnSpec /\ \A t \in Turns : WF_turnVars(Step(t))

-----------------------------------------------------------------------------

Places == {"away", "load", "register", "futexWait", "asleep",
           "turn", "complete", "wake", "done"}

Words == [turn : 0..(TurnMod - 1), delta : 0..MaxDelta]

TurnTypeOK ==
  /\ state \in Words
  /\ seen \in [Turns -> Words]
  /\ at \in [Turns -> Places]
  /\ completed \in FirstTurn..(LastTurn + 1)

-----------------------------------------------------------------------------

(* A thread is past its wait only in its own turn: completeTurn's DCHECK,  *)
(* which is also what gives it the slot to itself.                         *)
InTurn ==
  /\ state.turn = completed % TurnMod
  /\ \A t \in Turns :
       /\ at[t] \in {"turn", "complete"} => t = completed
       /\ at[t] \in {"wake", "done"} <=> t < completed

(* No lost wakeup: for a sleeper the recorded delta lasts until a turn     *)
(* that wakes its channel, or the thread that will wake it has already     *)
(* moved the turn on.                                                      *)
SleeperIsCovered == \A t \in Turns : at[t] = "asleep" =>
  \/ t > completed /\ state.delta >= ((t - completed - 1) % Channels) + 1
  \/ \E w \in Turns : at[w] = "wake" /\ futexChannel(w + 1) = futexChannel(t)

(* A turn whose predecessors have all come is given: nobody sleeps through *)
(* the turn waitForTurn promised to wait for.                              *)
EveryTurnComes == \A t \in Turns :
  (\A u \in FirstTurn..t : at[u] # "away") ~> (at[t] = "done")

=============================================================================
