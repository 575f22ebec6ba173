\* Some Hellos in every type and authentication, one fault.
CONSTANTS
  Hellos <- SomeHellos
  Changes <- SomeChanges
  MaxFaults = 1
SPECIFICATION CodecSpec
INVARIANTS
  CodecTypeOK
  AcceptedAsMeant
  AcceptedUnlessCarries
  Reserialises
\* A packet is parsed once.
CHECK_DEADLOCK FALSE
