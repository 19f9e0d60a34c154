\* The service, the copy started by hand and two connections.
SPECIFICATION ServerFairSpec
CONSTANTS
  Clients = 2
INVARIANTS
  EndMeansStopped
PROPERTIES
  WaitingEnds
  StopEnds
CHECK_DEADLOCK FALSE
