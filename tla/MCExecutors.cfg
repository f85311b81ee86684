SPECIFICATION PartsSpec
CONSTANTS
  Threads = {t1, t2}
  Adders = {a1}
  MaxTasks = 3
  MaxJobs = 2
  Nodes = {n1, n2, n3}
  Source = source
  Sink = sink
  MaxRepeat = 2
  MaxEdges = 3
  Unfinished = none
  Intervals = {1, 2}
  MaxTimed = 2
  MaxTime = 3
INVARIANTS IOPoolSound ThreadedSound 
PROPERTIES WorkEnds
CHECK_DEADLOCK FALSE
