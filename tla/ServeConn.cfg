\* One session: every interleaving of pump, shell, client and service stop,
\* push, pull and both at once, larger than every pipe and buffer.
SPECIFICATION FairSpec
CONSTANTS
  MaxIn = 4
  MaxReply = 2
  InCap = 1
  OutCap = 3
  SockCap = 2
  IoBuf = 2
INVARIANTS
  InputIntact
  OutputIntact
  EofAfterAllInput
  DrainedMeansSent
PROPERTIES
  StaysForListener
  RelaySpec
  HalfCloseCompletes
CHECK_DEADLOCK FALSE
