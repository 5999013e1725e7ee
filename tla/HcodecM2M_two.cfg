\* Two file handles compete for the encoder.
SPECIFICATION Spec
CONSTANTS
  Ctx = {c1, c2}
  NoCtx = NoCtx
  Buf = {b1}
  NoBuf = NoBuf
  Geom = {1}
  DefaultGeom = 1
  BsMin = 1
  BsMax = 1
  MaxSeq = 0
  StopMayRaceTail = TRUE
SYMMETRY CtxSymmetry
INVARIANT TypeOK
INVARIANT JobOnOwnHardware
INVARIANT LeaseNotLeaked
INVARIANT WorkNeverStarves
INVARIANT StoppedIsQuiet
INVARIANT LastExactlyOnce
PROPERTY ImplementsLease
