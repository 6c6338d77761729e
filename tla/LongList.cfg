SPECIFICATION Spec
CONSTANTS
  ArcIds <- MCArcIds
  MaxStates = 3
  Shapes <- MCShapes
  Terminals <- MCLabelled
  Lexical <- MCLabelled
  HasVocabulary = TRUE
  kAdjLinearSearchLimit = 1
INVARIANT
  NoDanglingArcs
