--------------------------- MODULE BlockingQueue ----------------------------
(***************************************************************************)
(* MPMCBlockingQueue and GenericBlockingQueue of                           *)
(* accelerator/thread/BlockingQueue.h with the Semaphore they use.  The    *)
(* inner queue and the semaphore are changed one after the other: an       *)
(* element may be there without its token and a token without its element. *)
(* The inner queue is atomic, as the module MPMCQueue shows of MPMCQueue   *)
(* and as the lock makes it for std::queue.                                *)
(***************************************************************************)
EXTENDS Integers, Sequences, FiniteSets

CONSTANTS
  Producers, Consumers, Items,
  Capacity,   \* max_capacity; for the generic queue, a bound on its length
  SemMax      \* SEM_VALUE_MAX

ASSUME SizesAssumption ==
  /\ Capacity \in Nat \ {0} /\ SemMax \in Nat
  /\ Capacity <= SemMax

ASSUME FiniteAssumption == IsFiniteSet(Producers) /\ IsFiniteSet(Consumers)

VARIABLES
  queue,   \* queue_
  sem,     \* the value of sem_
  adding,  \* where each producer is: "idle" or "post"
  taking   \* where each consumer is: "idle", "look" or "wait"

queueVars == <<queue, sem, adding, taking>>

-----------------------------------------------------------------------------

(* add: the element goes into the queue.  A full MPMCQueue makes add throw *)
(* and changes nothing.                                                    *)
Add(p, v) ==
  /\ adding[p] = "idle"
  /\ Len(queue) < Capacity
  /\ queue' = Append(queue, v)
  /\ adding' = [adding EXCEPT ![p] = "post"]
  /\ UNCHANGED <<sem, taking>>

PostIfFirst(p) ==   \* mutant
  /\ adding[p] = "post"
  /\ adding' = [adding EXCEPT ![p] = "idle"]
  /\ sem' = IF Len(queue) > 1 \/ sem = SemMax THEN sem ELSE sem + 1
  /\ UNCHANGED <<queue, taking>>

(* sem_.post(); at its largest value sem_post fails and add throws, with   *)
(* the element in the queue.                                               *)
Post(p) ==
  /\ adding[p] = "post"
  /\ adding' = [adding EXCEPT ![p] = "idle"]
  /\ sem' = IF sem < SemMax THEN sem + 1 ELSE sem
  /\ UNCHANGED <<queue, taking>>

(* A consumer calls take.                                                  *)
Take(c) ==
  /\ taking[c] = "idle"
  /\ taking' = [taking EXCEPT ![c] = "look"]
  /\ UNCHANGED <<queue, sem, adding>>

(* The element at the front, or else to the semaphore.                     *)
Look(c) ==
  /\ taking[c] = "look"
  /\ \/ /\ queue # <<>>
        /\ queue' = Tail(queue)
        /\ taking' = [taking EXCEPT ![c] = "idle"]
     \/ /\ queue = <<>>
        /\ taking' = [taking EXCEPT ![c] = "wait"]
        /\ UNCHANGED queue
  /\ UNCHANGED <<sem, adding>>

(* sem_.wait() returns with a token, and the queue is looked at again.     *)
Wake(c) ==
  /\ taking[c] = "wait"
  /\ sem > 0
  /\ sem' = sem - 1
  /\ taking' = [taking EXCEPT ![c] = "look"]
  /\ UNCHANGED <<queue, adding>>

(* A signal interrupts sem_wait and take throws.                           *)
Interrupt(c) ==
  /\ taking[c] = "wait"
  /\ taking' = [taking EXCEPT ![c] = "idle"]
  /\ UNCHANGED <<queue, sem, adding>>

QueueInit ==
  /\ queue = <<>>
  /\ sem = 0
  /\ adding = [p \in Producers |-> "idle"]
  /\ taking = [c \in Consumers |-> "idle"]

QueueNext ==
  \/ \E p \in Producers : Post(p) \/ \E v \in Items : Add(p, v)
  \/ \E c \in Consumers : Take(c) \/ Look(c) \/ Wake(c) \/ Interrupt(c)

QueueSpec == QueueInit /\ [][QueueNext]_queueVars

-----------------------------------------------------------------------------

Posting == {p \in Producers : adding[p] = "post"}
Looking == {c \in Consumers : taking[c] = "look"}

QueueTypeOK ==
  /\ queue \in Seq(Items) /\ Len(queue) <= Capacity
  /\ sem \in 0..SemMax
  /\ adding \in [Producers -> {"idle", "post"}]
  /\ taking \in [Consumers -> {"idle", "look", "wait"}]

(* Every element in the queue is covered by a token, by an add that is     *)
(* about to post one, or by a take that is about to look: takers never     *)
(* all sleep beside an element nobody will wake them for.                  *)
NoStrandedItem ==
  Len(queue) <= sem + Cardinality(Posting) + Cardinality(Looking)

=============================================================================
