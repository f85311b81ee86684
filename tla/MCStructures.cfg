SPECIFICATION MCSpec
CONSTANTS
  Keys = {k1, k2}
  None = none
  Deadlines = {1, 2, 3}
  MaxEntries = 2
  MaxBufs = 3
  MaxBlocks = 3
  NewSize = 2
  MaxSize = 4
  MaxCalls = 5
  MaxLost = 1
  Align = 1
  Bytes = {1}
  Queues = {q1, q2}
  Main = q1
  User = user
  MinAlloc = 3
  MaxAlloc = 3
  MaxPack = 2
  Lengths = {1, 4}
  MaxRemove = 3
  MaxMemory = 3
  MaxBlock = 4
  MaxQueueCalls = 4
  RingSize = 3
  Items = {x, y}
  Dead = dead
  MaxSent = 5
INVARIANTS BuffersSound RingRight
INVARIANTS MapSound 
INVARIANTS CacheSound StringsRight RecordsRight
PROPERTIES ImplementsDeadlineMap
CHECK_DEADLOCK FALSE
