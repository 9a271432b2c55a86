SPECIFICATION FairSpec
CONSTANTS
  MaxCases = 2
  MaxSteps = 2
  MaxContexts = 2
  Suites <- AllSuites
  KeepDeploy = {FALSE, TRUE}
INVARIANTS
  TypeOK
  PassedCaseIsClean
  PassedTaskIsComplete
  PublishedIsSettled
  SerialIsExclusive
  OutputsAreChained
  NoContextLeaks
PROPERTIES
  TaskTerminates
