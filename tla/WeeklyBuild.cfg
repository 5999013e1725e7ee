\* Two changes upstream, one forced run, one fault, after a schema 2 release.
SPECIFICATION Spec
CONSTANTS
  PinnedKernel <- MCPinnedKernel
  NoManifest = NoManifest
  InReleases <- MCInReleases
  BaseLists <- MCBaseLists
  KernelLists <- MCKernelLists
  Builders = {1, 2}
  FirstUpstream <- MCFirstUpstream
  OldRelease <- MCOldRelease
  MaxChanges = 2
  MaxForced = 1
  MaxFailures = 1
CHECK_DEADLOCK FALSE
INVARIANT TypeOK
INVARIANT NeverRollsBack
INVARIANT KernelFrozen
INVARIANT PublishedIsBound
PROPERTY ChangesArrive
