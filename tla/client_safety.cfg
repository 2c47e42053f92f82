SPECIFICATION Spec
CONSTANTS
  Kinds = {"tcp", "udp"}
  Buffers = {b1, b2}
  Calls = {c1, c2, c3}
  CallKinds = {"read", "write", "writeMany", "receive", "send", "sendMany"}
  TimedEvents = {"connect", "read", "write", "receive", "send"}
  EarlyShutdown = TRUE
  PeekCount = 2
INVARIANTS
  TypeOK
  PendingCountsOutstanding
  NothingEscapesCancel
  BuffersAreSeparate
  NothingComesAfterTheEnd
PROPERTIES
  LifecycleSpec
SYMMETRY InterchangeableBuffersAndCalls
CHECK_DEADLOCK FALSE
