SPECIFICATION Spec
CONSTANTS
  MaxCases = 2
  MaxSteps = 2
  MaxContexts = 2
  Suites <- SingleCases
  KeepDeploy = {FALSE}
INVARIANTS
  AllRunnersTerminated
