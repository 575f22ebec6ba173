\* Two links and two interfaces, one of each configured, so that each can displace the
\* other; a channel for one update.
CONSTANTS
  LinkEntries = {lan, wan}
  OtherEntries = {lanInet, wanInet}
  Configured = {lan, lanInet}
  KernelStates = {"Up"}
  Clients = {main}
  Capacity = 1
  MaxWrites = 2
SPECIFICATION Spec
INVARIANTS
  TypeOK
  NoGaps
  BelievesOrStale
PROPERTIES
  EventuallyTold
\* The bound on writes ends the run.
CHECK_DEADLOCK FALSE
