SPECIFICATION FairSpec
CONSTANTS
  Params = {1, 2}
  Features = {"f", "g"}
  NumExamples = 3
  DoScale = FALSE
  MaxThreads = 5
  SlotsPerProducer = 1
  ExampleUpdates <- MCExampleUpdates
  ExampleValue <- MCExampleValue
  RegGradient <- MCRegGradient
  RegValue <- MCRegValue
INVARIANTS
  TypeOK
  BlocksPartitionExamples
  ConsumerEndsLast
  NothingLostAtReturn
  FunctionValueIsTotal
PROPERTIES
  RefinesGradientSum
  EveryCallReturns
