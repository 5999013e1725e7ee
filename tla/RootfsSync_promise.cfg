\* The same instance against what the documentation promises.
SPECIFICATION Spec
CONSTANTS
  Names = {"a", "b"}
  BeforeTrees <- MCBeforeTrees
  AfterTrees <- MCAfterTrees
  MaxFailures = 2
CHECK_DEADLOCK FALSE
INVARIANT SuccessMeansSynced
