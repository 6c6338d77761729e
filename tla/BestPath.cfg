SPECIFICATION NbestSpec
CONSTANTS
  NumStates = 6
  Unreachable = 1000
  MaxBackEdges = 0
  MaxCount = 2147483647
  Arity = 2
  MaxHeight = 6
  Jobs <- MCJobs
INVARIANTS
  BestTreeTypeOK
  QueueIsHeap
  TailsAreReached
  TreeIsBest
  MarkedIsAcyclic
  NbestTypeOK
  MemoIsSorted
  NoChoiceTwice
  ListIsNbest
PROPERTIES
  ReachedIsSettled
  MemoIsStable
  Termination
CHECK_DEADLOCK FALSE
