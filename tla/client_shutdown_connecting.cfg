SPECIFICATION FairSpec
CONSTANTS
  Kinds = {"tcp"}
  Buffers = {b1, b2}
  Calls = {c1}
  CallKinds = {"read"}
  TimedEvents = {"connect", "read"}
  EarlyShutdown = TRUE
  PeekCount = 2
PROPERTIES
  CloseTerminates
CHECK_DEADLOCK FALSE
