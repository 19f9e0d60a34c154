\* Two builds in one workspace, for every kind of conf.
SPECIFICATION Spec
CONSTANTS
  MaxRestarts = 1
  Builds = 2
INVARIANTS
  ImageIdle
  AssetComplete
  VerifiedAssetWorks
CHECK_DEADLOCK FALSE
