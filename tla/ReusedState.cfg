SPECIFICATION Spec
CONSTANTS
  Terminals = {"a", "b"}
  Nonterminals = {"X"}
  MaxStates = 2
  ClientsClearCache = TRUE
  ClientsUnlabel = FALSE
INVARIANT
  FreshStatesAreUnlabelled
