SPECIFICATION Spec
CONSTANTS
  ArcIds <- MCArcIds
  MaxStates = 3
  Shapes <- MCShapes
  Terminals <- MCLabelled
  Lexical = {}
  HasVocabulary = TRUE
  kAdjLinearSearchLimit = 16
INVARIANT
  NoDanglingArcs
