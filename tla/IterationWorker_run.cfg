SPECIFICATION FairSpec
CONSTANTS
  MinIterations <- MinusOne
  MaxIterations = 3
  MaxRecords = 4
  Delta = 2
  MinRate <- TwoBelowDefault
INVARIANTS
  TypeOK
  FullRun
  ErrorFails
  FailureIsTold
PROPERTIES
  WorkerEnds
