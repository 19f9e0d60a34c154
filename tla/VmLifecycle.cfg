\* Two boots and shutdowns of any guest, console and VNC builds, sparc64 or not.
SPECIFICATION FairSpec
CONSTANTS
  LoginMax = 2
  AckMax = 2
  ConsoleMax = 3
  DownMax = 5
  TermMax = 2
  Reboots = 1
INVARIANTS
  NoQemuLeft
  PowerOffNoticed
  DownMeansClean
PROPERTIES
  SyncNeverCut
  BuildEnds
CHECK_DEADLOCK FALSE
