---------------------------- MODULE MCQueueMutex ----------------------------
(***************************************************************************)
(* MPMCQueue, and SharedMutex as SharedMutexReadPriority and as            *)
(* SharedMutexWritePriority: the parts whose threads are interchangeable.  *)
(* They do not interact: each behaviour runs one of them.                  *)
(***************************************************************************)
EXTENDS MPMCQueue, SharedMutex, TLC

VARIABLE part    \* what runs

(* SharedMutexReadPriority, and the other one is what the module extends.  *)
R == INSTANCE SharedMutex WITH ReaderPriority <- TRUE

allVars == <<part, vars, mutexVars>>

(* Which calls meet: upgrades meet shared locks with a token where writers *)
(* have priority, and those without one where readers have it.             *)
Together(r1, r2) == {r1, r2} \subseteq {role[u] : u \in Threads}
TwoUpgraders == \E u, v \in Threads :
  u # v /\ role[u] = "upgrader" /\ role[v] = "upgrader"

PartsInit ==
  /\ part \in {"queue", "write", "read"}
  /\ Init /\ MutexInit
  /\ part # "queue" => kinds = CHOOSE k \in KindSets : TRUE
  /\ part = "queue" => role = [u \in Threads |-> "writer"]
  /\ part = "write" => ~Together("upgrader", "less")
  /\ part = "read" => ~Together("upgrader", "token") /\ ~TwoUpgraders

(* A queue comes to rest when its tickets are used up, perhaps with calls  *)
(* that wait; users of the mutex never do.                                 *)
TicketsOver == part = "queue" /\ UNCHANGED vars

PartsNext ==
  /\ UNCHANGED part
  /\ \/ part = "queue" /\ Next /\ UNCHANGED mutexVars
     \/ part = "write" /\ MutexNext /\ UNCHANGED vars
     \/ part = "read" /\ R!MutexNext /\ UNCHANGED vars
     \/ TicketsOver /\ UNCHANGED mutexVars

PartsSpec == PartsInit /\ [][PartsNext]_allVars

Symmetry == Permutations(Threads) \cup Permutations(Values)

=============================================================================
