\* Weekly publication and migration of one tag, run up to three times.
SPECIFICATION Spec
CONSTANTS
  AssetsSince <- MCAssetsSince
  OptionalAssets = {}
  ChecksOf <- MCChecksOf
  OptionalChecks = {}
  ImageNames = {"image-a", "image-b"}
  DeviceEvidence = {}
  SizeOf <- MCSizeOf
  Kinds = {"publish", "migrate"}
  Bundles = {1, 2, 3}
  Fixed <- MCFixed
  ImageOf <- MCImageOf
  ReportName = "report"
  OldName <- MCOldName
  Cut = 0
  MaxRuns = 3
CHECK_DEADLOCK FALSE
INVARIANT TypeOK
INVARIANT DoneIsWhole
INVARIANT DoneIsAuditable
PROPERTY ExposesWhole
PROPERTY Idempotent
PROPERTY RunRecovers
