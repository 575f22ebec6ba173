\* A configured device that is there at first, one that is not configured, and
\* an interface on a link nobody configured; one fault of any kind.
CONSTANTS
  None = None
  eth = eth  ppp = ppp  wan = wan  inet = inet  spare = spare  gone = gone
  Devices = {eth, ppp}
  Addresses = {a}
  Boot <- ConfiguredPresent
  Links <- OneLink
  DeviceOf <- OneLinkDevice
  Interfaces <- WithSpare
  LinkOf <- WithSpareLink
  MaxChanges = 3
  MaxFaults = 1
SPECIFICATION Spec
INVARIANTS
  TypeOK
  NoConflicts
PROPERTIES
  ConfiguredAlwaysListed
  HoldRespected
  NewsPending
