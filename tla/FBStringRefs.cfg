SPECIFICATION Spec
CONSTANTS
  StrThreads = {t1, t2}
  Values = {1, 2}
  MaxCalls = 2
INVARIANT AliasReadable
CHECK_DEADLOCK FALSE
