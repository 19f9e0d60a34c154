\* The hooks against every behaviour of the guest, with small bounds.
SPECIFICATION FairSpec
CONSTANTS
  Idle = 2
  SettleMax = 3
  Tries = 2
INVARIANTS
  LaterBootProves
PROPERTIES
  BuildEnds
CHECK_DEADLOCK FALSE
