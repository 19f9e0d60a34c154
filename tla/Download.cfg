\* Three workers, two attempts each, two runs in one workspace.
SPECIFICATION FairSpec
CONSTANTS
  Parts = 3
  Attempts = 2
  Runs = 2
INVARIANTS
  FetchedWhole
  MediumWhole
  LeftoverNeverFatal
PROPERTIES
  FetchEnds
CHECK_DEADLOCK FALSE
