----------------------------- MODULE MCThreads -----------------------------
(***************************************************************************)
(* RWSpinLock, TurnSequencer and the pool of CPUThreadPoolExecutor.  Each  *)
(* behaviour runs one of them.                                             *)
(***************************************************************************)
EXTENDS RWSpinLock, TurnSequencer, CPUThreadPool

VARIABLE part   \* what runs

allVars  == <<part, vars, turnVars, poolVars>>

OfLock  == part = "lock" /\ UNCHANGED <<part, turnVars, poolVars>>
OfTurns == part = "turns" /\ UNCHANGED <<part, vars, poolVars>>
OfPool  == part = "pool" /\ UNCHANGED <<part, vars, turnVars>>

(* A pool that does not run has an owner who does nothing more.            *)
NoPool == PoolInit /\ isJoin = FALSE /\ goesOn = FALSE

PartsInit ==
  /\ part \in {"lock", "turns", "pool"} /\ Init /\ TurnInit
  /\ IF part = "pool" THEN PoolInit ELSE NoPool

(* All turns within the bound are over.                                    *)
TurnsOver ==
  /\ \A t \in Turns : at[t] = "done"
  /\ UNCHANGED turnVars

PartsNext ==
  \/ OfLock /\ Next
  \/ OfTurns /\ (TurnNext \/ TurnsOver)
  \/ OfPool /\ PoolNext

(* The fairness of the parts, each as its own module states it.            *)
PartsSpec ==
  /\ PartsInit /\ [][PartsNext]_allVars
  /\ \A t \in Threads :
       /\ WF_allVars(OfLock /\ BackOff(t))
       /\ WF_allVars(OfLock /\ Release(t))
       /\ WF_allVars(OfLock /\ FinishUnlockAndLockShared(t))
       /\ WF_allVars(OfLock /\ FinishUnlockAndLockUpgrade(t))
       /\ WF_allVars(OfLock /\ pc[t] = "promoting"
                             /\ TryUnlockUpgradeAndLock(t))
  /\ \A t \in Turns : WF_allVars(OfTurns /\ Step(t))
  /\ WF_allVars(OfPool /\ Running /\ Owner)
  /\ \A w \in Workers : WF_allVars(OfPool /\ Running /\ Worker(w))

=============================================================================
