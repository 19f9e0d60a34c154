\* Every answer file of two lines, distinct anchors or not, and two boots.
SPECIFICATION FairSpec
CONSTANTS
  Lines = 2
  Window = 2
  Polls = 2
  SockCap = 1
  MaxLog = 4
INVARIANTS
  KeysOnPrompt
  InstallAnswered
  DumpedWhole
  LoginOfThisBoot
PROPERTIES
  EndsWhileWatched
  GuestNeverBlocked
CHECK_DEADLOCK FALSE
