\* What a builder makes, and nothing happens to it on the way.
CONSTANTS
  Hellos <- SomeHellos
  Changes <- SomeChanges
  MaxFaults = 0
SPECIFICATION CodecSpec
INVARIANTS
  BuiltIsAccepted
CHECK_DEADLOCK FALSE
