SPECIFICATION PartsSpec
CONSTANTS
  Producers = {p1, p2}
  Consumers = {c1, c2}
  Items = {a, b}
  Capacity = 2
  SemMax = 3
  Posters = {p1, p2}
  Nobody = nobody
  MaxLife = 3
  Adders = {a1, a2}
  PipeSize = 2
  MaxItems = 2
  LogThread = logThread
  Null = null
  SplitSize = 2
INVARIANTS NoStrandedItem SleepSound 
PROPERTIES PostWakesWaiter LoopServes 
CHECK_DEADLOCK FALSE
