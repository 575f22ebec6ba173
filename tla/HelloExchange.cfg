\* Two devices, one removal, two packets of other hosts, a channel for one.
CONSTANTS
  Names = {"Inside", "Unused", "Missing"}
  Listing <- ProgramListing
  Unlinked = ""
  Devices = {"vlan.10", "eth1"}
  LocalAddress <- Own
  Neighbours <- OneNeighbour
  Capacity = 1
  MaxArrivals = 2
  MaxRemovals = 1
SPECIFICATION Spec
INVARIANTS
  TypeOK
  NoStorm
  OwnDeviceOnly
  AnswerUnderstood
PROPERTIES
  EventuallySettled
\* Connecting can fail, and everything can be answered.
CHECK_DEADLOCK FALSE
