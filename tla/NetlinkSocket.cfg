\* Two polls of two requests each, so that the InterfaceManager may be dropped during the
\* second; dumps of one message and the one that ends it; two multicast messages; a fault
\* of any kind, besides timeouts, which may happen at any time.
CONSTANTS
  Parts = 1
  MaxPolls = 2
  MaxEvents = 2
  MaxFaults = 1
SPECIFICATION Spec
INVARIANTS
  TypeOK
  AnswerIsOwn
  EventsInOrder
PROPERTIES
  ImplementsDumps
  EventuallyDelivered
  EventuallyEnded
\* Once both tasks have ended nothing happens any more.
CHECK_DEADLOCK FALSE
