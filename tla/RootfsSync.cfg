\* Every pair of trees; at most two commands run out of space.
SPECIFICATION Spec
CONSTANTS
  Names = {"a", "b"}
  BeforeTrees <- MCBeforeTrees
  AfterTrees <- MCAfterTrees
  MaxFailures = 2
CHECK_DEADLOCK FALSE
INVARIANT TypeOK
INVARIANT EveryCommandApplies
INVARIANT SyncedOrHalfway
