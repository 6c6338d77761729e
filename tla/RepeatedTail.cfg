SPECIFICATION Spec
CONSTANTS
  ArcIds <- MCArcIds
  MaxStates = 2
  Shapes <- RepeatedShapes
  Terminals = {}
  Lexical = {}
  HasVocabulary = TRUE
  kAdjLinearSearchLimit = 16
INVARIANT
  ForArcsVisitsOnce
