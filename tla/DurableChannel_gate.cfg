\* The gate of host_enablessh.py against the standalone fallback.
SPECIFICATION Spec
CONSTANTS
  Idle = 2
  SettleMax = 3
  Tries = 2
INVARIANTS
  GateSeesService
CHECK_DEADLOCK FALSE
