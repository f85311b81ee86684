SPECIFICATION Spec
CONSTANTS
  Callers = {c1}
  MaxJobs = 2
INVARIANT FunctionOutlivesRun
CHECK_DEADLOCK FALSE
