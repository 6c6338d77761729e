SPECIFICATION NbestSpec
CONSTANTS
  NumStates = 4
  Unreachable = 1000
  MaxBackEdges = 0
  MaxCount = 2147483647
  Arity = 2
  MaxHeight = 5
  Jobs <- FreeLoopJobs
INVARIANT FirstIsNoWorse
CHECK_DEADLOCK FALSE
