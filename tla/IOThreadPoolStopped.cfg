SPECIFICATION Spec
CONSTANTS
  Threads = {t1, t2}
  Adders = {a1}
  MaxTasks = 2
INVARIANT StopBehavesLikeJoin
CHECK_DEADLOCK FALSE
