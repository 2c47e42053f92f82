SPECIFICATION TimeoutSpec
CONSTANTS
  Kinds = {"unix"}
  Buffers = {b1, b2}
  Calls = {c1, c2}
  CallKinds = {"read", "write"}
  TimedEvents = {"connect", "read"}
  EarlyShutdown = FALSE
  PeekCount = 1
PROPERTIES
  CloseTerminates
  TimedOperationsEnd
CHECK_DEADLOCK FALSE
