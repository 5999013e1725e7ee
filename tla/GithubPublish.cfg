\* The publish job with three tries per step, run up to three times.
SPECIFICATION Spec
CONSTANTS
  AssetsSince <- MCAssetsSince
  OptionalAssets = {"rtl8189fs-driver.json"}
  ChecksOf <- MCChecksOf
  OptionalChecks = {"rtl8189fs-driver.json", "imageIdentity"}
  ImageNames = {"image"}
  DeviceEvidence = {"device-serial"}
  SizeOf <- MCSizeOf
  LocalAssets <- MCLocalAssets
  Manifest <- MCManifest
  Report <- MCReport
  Proof = "device-serial"
  Attempts = 3
  MaxRuns = 3
  MaxOrphans = 1
CHECK_DEADLOCK FALSE
INVARIANT TypeOK
INVARIANT UploadsHidden
INVARIANT NextDetectAccepts
PROPERTY Implements
PROPERTY RerunRecovers
