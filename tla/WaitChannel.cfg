\* A guest that may change its address, a monitor that may not answer.
SPECIFICATION FairSpec
CONSTANTS
  Addresses = {a10, a11, a254}
  Expected = a254
  None = none
  MaxRetries = 2
  MaxRestarts = 1
  WedgeAfter = 1
INVARIANTS
  GuardMeansForwarded
  ForwardOfThisBoot
  FollowsGuest
PROPERTIES
  WaitEnds
CHECK_DEADLOCK FALSE
