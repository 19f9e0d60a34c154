\* Two versions, two push attempts, two faults.
SPECIFICATION WatchFairSpec
CONSTANTS
  Versions = {1, 2}
  Pushes = 2
  Faults = 2
INVARIANTS
  OnlyFinalLands
  LandingTold
PROPERTIES
  NoSilentMiss
