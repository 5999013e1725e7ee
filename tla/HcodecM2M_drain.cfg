\* One file handle, two buffers per queue and two geometries: drains,
\* STREAMOFF and their progress.
SPECIFICATION FairSpec
CONSTANTS
  Ctx = {c1}
  NoCtx = NoCtx
  Buf = {b1, b2}
  NoBuf = NoBuf
  Geom = {1, 2}
  DefaultGeom = 1
  BsMin = 1
  BsMax = 1
  MaxSeq = 2
  StopMayRaceTail = FALSE
INVARIANT JobOnOwnHardware
INVARIANT DrainHasEnding
PROPERTY SequenceRestarts
PROPERTY WaitingIoctlReturns
PROPERTY DrainEnds
