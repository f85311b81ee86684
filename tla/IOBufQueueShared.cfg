SPECIFICATION Spec
CONSTANTS
  Queues = {q1, q2}
  User = user
  MinAlloc = 3
  MaxAlloc = 3
  MaxPack = 2
  Lengths = {1, 4}
  MaxRemove = 3
  Main = q1
  MaxMemory = 3
  MaxBlock = 4
  MaxQueueCalls = 4
  Careful = FALSE
INVARIANT DataKept
CHECK_DEADLOCK FALSE
