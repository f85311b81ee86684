------------------------------- MODULE Baton -------------------------------
(***************************************************************************)
(* Baton of accelerator/thread/Baton.h: one waiter, one post in each       *)
(* lifetime, over several lifetimes of the same word.  A post may still    *)
(* have its futexWake to deliver when the waiter has returned and begun    *)
(* the next lifetime.                                                      *)
(***************************************************************************)
EXTENDS Naturals

CONSTANTS
  Posters,   \* threads that may post; one of them in each lifetime
  Nobody,
  MaxLife    \* bound: lifetimes

VARIABLES
  state,     \* state_
  waiter,    \* the waiter's place
  timed,     \* it is in timed_wait
  poster,    \* each poster's place
  before,    \* each poster's local copy of state_
  life,      \* lifetimes so far
  by,        \* history: who posts in this lifetime, or Nobody yet
  missed     \* history: that post had returned when timed_wait timed out

vars == <<state, waiter, timed, poster, before, life, by, missed>>

INIT           == 0
EARLY_DELIVERY == 1
WAITING        == 2
LATE_DELIVERY  == 3
TIMED_OUT      == 4

-----------------------------------------------------------------------------
(* wait and timed_wait *)

Posted   == by # Nobody
Returned == Posted /\ poster[by] = "ready"

Post_ == <<poster, before, by>>

Wait ==
  /\ waiter = "ready"
  /\ waiter' = "spin"
  /\ timed' \in BOOLEAN
  /\ UNCHANGED <<state, Post_, life, missed>>

(* The try_wait of spinWaitForEarlyDelivery that finds the delivery, or    *)
(* the last one that does not; the others change nothing.                  *)
TryWait ==
  /\ waiter = "spin"
  /\ waiter' = IF state = EARLY_DELIVERY THEN "true" ELSE "cas"
  /\ UNCHANGED <<state, timed, Post_, life, missed>>

(* The compare_exchange from INIT to WAITING, or a last minute reprieve.   *)
StartWaiting ==
  /\ waiter = "cas"
  /\ IF state = INIT THEN state' = WAITING /\ waiter' = "wait"
                     ELSE waiter' = "true" /\ UNCHANGED state
  /\ UNCHANGED <<timed, Post_, life, missed>>

(* futexWait sleeps only while the state is WAITING.                       *)
FutexWait ==
  /\ waiter = "wait"
  /\ waiter' = IF state = WAITING THEN "sleep" ELSE "load"
  /\ UNCHANGED <<state, timed, Post_, life, missed>>

Interrupt ==
  /\ waiter = "sleep"
  /\ waiter' = "load"
  /\ UNCHANGED <<state, timed, Post_, life, missed>>

Timeout ==
  /\ waiter = "sleep" /\ timed
  /\ waiter' = "timedOut"
  /\ missed' = Returned
  /\ UNCHANGED <<state, timed, Post_, life>>

StoreTimedOut ==
  /\ waiter = "timedOut"
  /\ state' = TIMED_OUT
  /\ waiter' = "false"
  /\ UNCHANGED <<timed, Post_, life, missed>>

LoadTrusting ==   \* mutant
  /\ waiter = "load"
  /\ waiter' = "true"
  /\ UNCHANGED <<state, timed, Post_, life, missed>>

(* state_ is the truth, whatever woke the futex.                           *)
Load ==
  /\ waiter = "load"
  /\ waiter' = IF state = LATE_DELIVERY THEN "true" ELSE "wait"
  /\ UNCHANGED <<state, timed, Post_, life, missed>>

(* The waiter resets the baton.  It may do so as soon as wait returned;    *)
(* after a timeout it first makes sure that no post is under way.          *)
Reset ==
  /\ waiter \in {"true", "false"}
  /\ waiter = "false" => (Posted => Returned)
  /\ life < MaxLife
  /\ life' = life + 1
  /\ state' = INIT
  /\ waiter' = "ready"
  /\ timed' = FALSE
  /\ by' = Nobody /\ missed' = FALSE
  /\ UNCHANGED <<poster, before>>

-----------------------------------------------------------------------------
(* post *)

Waiter_ == <<waiter, timed, life, missed>>

(* The load; a baton whose wait has timed out may also never be posted.    *)
PostLoad(p) ==
  /\ poster[p] = "ready" /\ ~Posted
  /\ by' = p
  /\ before' = [before EXCEPT ![p] = state]
  /\ poster' = [poster EXCEPT ![p] = IF state = INIT THEN "cas" ELSE "test"]
  /\ UNCHANGED <<state, Waiter_>>

(* The compare_exchange from INIT to EARLY_DELIVERY.                       *)
PostCas(p) ==
  /\ poster[p] = "cas"
  /\ \/ /\ state = INIT
        /\ state' = EARLY_DELIVERY
        /\ poster' = [poster EXCEPT ![p] = "ready"]
        /\ UNCHANGED before
     \/ /\ state # INIT
        /\ before' = [before EXCEPT ![p] = state]
        /\ poster' = [poster EXCEPT ![p] = "test"]
        /\ UNCHANGED state
  /\ UNCHANGED <<Waiter_, by>>

PostTest(p) ==
  /\ poster[p] = "test"
  /\ poster' = [poster EXCEPT ![p] =
                  IF before[p] = TIMED_OUT THEN "ready" ELSE "store"]
  /\ UNCHANGED <<state, Waiter_, before, by>>

PostStore(p) ==
  /\ poster[p] = "store"
  /\ state' = LATE_DELIVERY
  /\ poster' = [poster EXCEPT ![p] = "wake"]
  /\ UNCHANGED <<Waiter_, before, by>>

PostWakeNobody(p) ==   \* mutant
  /\ poster[p] = "wake"
  /\ poster' = [poster EXCEPT ![p] = "ready"]
  /\ UNCHANGED <<state, Waiter_, before, by>>

(* futexWake, perhaps of a waiter in a later lifetime.                     *)
PostWake(p) ==
  /\ poster[p] = "wake"
  /\ waiter' = IF waiter = "sleep" THEN "load" ELSE waiter
  /\ poster' = [poster EXCEPT ![p] = "ready"]
  /\ UNCHANGED <<state, timed, before, life, by, missed>>

Init ==
  /\ state = INIT
  /\ waiter = "ready" /\ timed = FALSE
  /\ poster = [p \in Posters |-> "ready"]
  /\ before = [p \in Posters |-> INIT]
  /\ life = 0
  /\ by = Nobody /\ missed = FALSE

WaiterNext ==
  TryWait \/ StartWaiting \/ FutexWait \/ StoreTimedOut \/ Load

PosterNext(p) == PostCas(p) \/ PostTest(p) \/ PostStore(p) \/ PostWake(p)

Next ==
  \/ Wait \/ Reset \/ WaiterNext \/ Interrupt \/ Timeout
  \/ \E p \in Posters : PostLoad(p) \/ PosterNext(p)

Spec == Init /\ [][Next]_vars

(* Threads inside wait and post keep running.  Nobody relies on a signal   *)
(* or a timeout to end a sleep.                                            *)
FairSpec ==
  /\ Spec
  /\ WF_vars(WaiterNext)
  /\ \A p \in Posters : WF_vars(PosterNext(p))

-----------------------------------------------------------------------------

TypeOK ==
  /\ state \in INIT..TIMED_OUT
  /\ waiter \in {"ready", "spin", "cas", "wait", "sleep", "load", "timedOut",
                 "true", "false"}
  /\ timed \in BOOLEAN /\ missed \in BOOLEAN
  /\ poster \in [Posters -> {"ready", "cas", "test", "store", "wake"}]
  /\ before \in [Posters -> INIT..TIMED_OUT]
  /\ by \in Posters \cup {Nobody}
  /\ life \in 0..MaxLife

(* The assertions of try_wait, wait, timed_wait, post and reset, each      *)
(* where a thread is about to evaluate it.                                 *)
AssertsHold ==
  /\ waiter = "spin" => state \in {INIT, EARLY_DELIVERY}
  /\ waiter = "cas"  => state \in {INIT, EARLY_DELIVERY}
  /\ waiter = "load" => state \in {WAITING, LATE_DELIVERY}
  /\ waiter \in {"true", "false"} => state # WAITING
  /\ ~Posted => state \in {INIT, WAITING, TIMED_OUT}
  /\ \A p \in Posters :
       poster[p] = "test" => before[p] \in {WAITING, TIMED_OUT}

(* wait, timed_wait and try_wait report a post only if there is one in     *)
(* this lifetime, whatever futexWake an earlier one still delivers.        *)
TrueMeansPosted == waiter = "true" => Posted

(* A post that has returned before the timeout is not reported as missed.  *)
FalseMeansNotPosted == waiter = "false" => ~missed

(* Every wait ends with the right answer.                                  *)
BatonSound ==
  TypeOK /\ AssertsHold /\ TrueMeansPosted /\ FalseMeansNotPosted

(* wait returns once post was called.                                      *)
PostWakesWaiter ==
  (Posted /\ waiter # "ready") ~> waiter \in {"true", "false"}

=============================================================================
