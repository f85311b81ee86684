SPECIFICATION PartsSpec
CONSTANTS
  Threads = {t1, t2, t3}
  FirstTurn = 6
  LastTurn = 9
  TurnMod = 8
  MaxDelta = 2
  Channels = 2
  Workers = {w1, w2}
  Tasks = {k1, k2}
  Poison = poison
  NoTask = none
  Capacity = 2
  Ops = {"setNumThreads", "join", "stop"}
  MaxCalls = 3
INVARIANTS Exclusion NoOrphanUpgraded InTurn SleeperIsCovered PoolSound
PROPERTIES NoNewReaderBesideUpgrade PromotionNotStarvedByReaders EveryTurnComes
PROPERTIES JoinRunsEverything CallReturns
