SPECIFICATION Spec
CONSTANTS
  Terminals = {"a", "b"}
  Nonterminals = {"X"}
  MaxStates = 3
  ClientsClearCache = TRUE
  ClientsUnlabel = TRUE
INVARIANTS
  TypeOK
  CacheIsSound
  FreshStatesAreUnlabelled
PROPERTY
  SameStateForSameLabels
