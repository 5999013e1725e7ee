\* The three layouts, two blocks per raw chunk, room for four blocks.
SPECIFICATION Spec
CONSTANTS
  UuidOf <- MCUuidOf
  Layouts = {"emmc", "ophub", "vendor"}
  FirstRoots <- MCFirstRoots
  LaterRoots <- MCLaterRoots
  Trees = {1, 2}
  RawLimit = 2
  BootLength = 1
  Room = 4
CHECK_DEADLOCK FALSE
INVARIANT TypeOK
INVARIANT SparseFaithful
INVARIANT AcceptedBoots
