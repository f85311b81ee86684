SPECIFICATION PoolSpec
CONSTANTS
  Workers = {w1, w2}
  Tasks = {t1, t2}
  Poison = poison
  NoTask = none
  Capacity = 3
  Ops = {"setNumThreads", "join", "stop"}
  MaxCalls = 3
INVARIANTS PoisonIsExpected
