\* The same router with both devices there, for the anti-entropy scan.
CONSTANTS
  None = None
  eth = eth  ppp = ppp  wan = wan  inet = inet  spare = spare  gone = gone
  Devices = {eth, ppp}
  Addresses = {a}
  Boot <- BothPresent
  Links <- OneLink
  DeviceOf <- OneLinkDevice
  Interfaces <- OneInterface
  LinkOf <- OneInterfaceLink
  MaxChanges = 2
  MaxFaults = 1
SPECIFICATION Spec
PROPERTY
  EventuallyInSync
