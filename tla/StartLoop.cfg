SPECIFICATION NbestSpec
CONSTANTS
  NumStates = 3
  Unreachable = 1000
  MaxBackEdges = 0
  MaxCount = 2147483647
  Arity = 2
  MaxHeight = 5
  Jobs <- StartLoopJobs
INVARIANT CyclesAreNegative
CHECK_DEADLOCK FALSE
