SPECIFICATION Spec
CONSTANTS
  Terminals = {"a", "b"}
  Nonterminals = {"X"}
  MaxStates = 2
  ClientsClearCache = FALSE
  ClientsUnlabel = TRUE
INVARIANT
  CacheIsSound
