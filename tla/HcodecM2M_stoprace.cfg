\* ENC_CMD_STOP between the drain check of hc_work and its completion.
SPECIFICATION Spec
CONSTANTS
  Ctx = {c1}
  NoCtx = NoCtx
  Buf = {b1, b2}
  NoBuf = NoBuf
  Geom = {1, 2}
  DefaultGeom = 1
  BsMin = 1
  BsMax = 1
  MaxSeq = 2
  StopMayRaceTail = TRUE
INVARIANT DrainHasEnding
