SPECIFICATION PartsSpec
CONSTANTS
  Threads = {t1, t2, t3}
  Values = {a, b}
  Nil = Nil
  capacity = 2
  stride = 1
  KindSets = {{"blocking", "ready"}, {"blocking", "promised"},
              {"blocking", "size"}}
  MaxTickets = 3
  Users = {t1, t2, t3}
  Table = {a, b}
  ReaderPriority = FALSE
  Readers = 8
INVARIANTS SlotsServed MutexSound SleepersAreOwedWake
PROPERTIES AnswersTrue ImplementsFifo
SYMMETRY Symmetry
