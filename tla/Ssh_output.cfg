SPECIFICATION Spec
CONSTANTS
  MaxCalls = 2
  Window = 1
  MaxIn = 3
  ReadSize = 2
INVARIANTS
  OutputIsComplete
