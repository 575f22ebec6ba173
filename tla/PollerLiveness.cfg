\* One socket with enough packets for two overlapping readers.
CONSTANTS
  Sockets = {s1}
  MaxEvents = 1
  MaxPackets = 4
  MaxInterrupts = 1
SPECIFICATION Spec
PROPERTIES
  EventuallyHandedOver
  EventuallyClosed
CHECK_DEADLOCK FALSE
