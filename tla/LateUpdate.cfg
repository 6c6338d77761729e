SPECIFICATION Spec
CONSTANTS
  Arity = 4
  None = None
  Jobs <- QueuedTwiceJobs
INVARIANT
  PathIsAlwaysBest
CHECK_DEADLOCK FALSE
