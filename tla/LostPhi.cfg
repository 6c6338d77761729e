SPECIFICATION Spec
CONSTANTS
  Arity = 4
  None = None
  Jobs <- LostPhiJobs
INVARIANT
  NeverHidesLastPath
CHECK_DEADLOCK FALSE
