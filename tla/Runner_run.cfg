SPECIFICATION FairSpec
CONSTANTS
  MaxRecords = 2
  PipeCap = 1
  Confs <- Configurations
INVARIANTS
  TypeOK
  JoinIsComplete
  OrphanIsSingleShot
PROPERTIES
  JoinReturns
  ExitEnds
  ImplementsContract
CHECK_DEADLOCK FALSE
