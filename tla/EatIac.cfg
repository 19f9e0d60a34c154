\* Output with 0xFF bytes between negotiation, received in any chunks.
SPECIFICATION HostSpec
CONSTANTS
  Printed = {"IAC", "x", "DO"}
  Units = 3
  RecvMax = 15
INVARIANTS
  ConversationIntact
CHECK_DEADLOCK FALSE
