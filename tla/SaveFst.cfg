SPECIFICATION Spec
CONSTANTS
  Arity = 4
  None = None
  Jobs <- MCJobs
INVARIANTS
  TypeOK
  FlattenMerges
  QueueIsHeap
  PathIsBest
  NoneOnlyIfNone
  ResultIsPath
  SavedIsComposition
PROPERTIES
  SettledStays
  RefinesGraphCopy
  Termination
CHECK_DEADLOCK FALSE
