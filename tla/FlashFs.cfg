CONSTANTS
  Name = {"a", "b"}
  N = 4
  MaxBlocks = 2
  MaxFiles = 4
  MaxCuts = 1
SPECIFICATION Spec
INVARIANTS KeptIntact OpenIsWhole ClosedIsFound CleanupClears
PROPERTIES IsFileStore
CHECK_DEADLOCK FALSE
