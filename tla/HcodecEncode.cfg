\* One stream: every control change, hang, failure and restart, on a QP scale
\* of three values.
SPECIFICATION Spec
CONSTANTS
  QpLow = 1
  QpTop = 3
  QpStep = 1
  QpDrift = 2
  IdrGap = 2
  Tries = 2
  NumMod = 3
  GopTop = 2
  QpI = {2}
  QpMin = {1, 3}
  QpMax = {2, 3}
  Gop = {0, 2}
INVARIANT TypeOK
INVARIANT QuantIsHeaderQp
INVARIANT FloorHolds
INVARIANT OnlyLossGarbles
INVARIANT KeyFrameStaysDue
PROPERTY WorkEnds
