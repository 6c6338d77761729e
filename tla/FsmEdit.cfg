SPECIFICATION Spec
CONSTANTS
  ArcIds <- MCArcIds
  MaxStates = 3
  Shapes <- MCShapes
  Terminals <- MCLabelled
  Lexical <- MCLabelled
  HasVocabulary = FALSE
  kAdjLinearSearchLimit = 16
PROPERTY
  ArcsChangeAsAsked
