\* Two sockets and a buffer for one event, so that the ready list outlasts a wait.
CONSTANTS
  Sockets = {s1, s2}
  MaxEvents = 1
  MaxPackets = 2
  MaxInterrupts = 1
SPECIFICATION Spec
INVARIANTS
  TypeOK
  NoUseAfterClose
  NoLostWakeup
CHECK_DEADLOCK FALSE
