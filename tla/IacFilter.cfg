\* Every stream of five bytes in every division into chunks.
SPECIFICATION Spec
CONSTANTS
  Sent = {"IAC", "SB", "SE", "DO", "WONT", "NOP", "x"}
  Length = 5
  IoBuf = 5
INVARIANTS
  ChunkingInvisible
PROPERTIES
  OutputFits
CHECK_DEADLOCK FALSE
