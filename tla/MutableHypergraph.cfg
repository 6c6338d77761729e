SPECIFICATION Spec
CONSTANTS
  ArcIds <- MCArcIds
  MaxStates = 3
  Shapes <- MCShapes
  Terminals <- MCLabelled
  Lexical <- MCLabelled
  HasVocabulary = TRUE
  kAdjLinearSearchLimit = 16
INVARIANTS
  TypeOK
  NoDanglingArcs
  IndexesAgree
  ForArcsVisitsOnce
PROPERTIES
  InArcsNeverLeak
  ArcsChangeAsAsked
  RefinesArcSet
