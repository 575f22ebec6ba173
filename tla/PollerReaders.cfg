\* The claim of the comment in poller_process_messages.
CONSTANTS
  Sockets = {s1}
  MaxEvents = 1
  MaxPackets = 2
  MaxInterrupts = 0
SPECIFICATION Spec
INVARIANT OneReader
CHECK_DEADLOCK FALSE
