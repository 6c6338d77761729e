SPECIFICATION Spec
CONSTANTS
  Arity = 4
  None = None
  Jobs <- LostEndJobs
INVARIANTS
  ResultIsAnyPath
CHECK_DEADLOCK FALSE
