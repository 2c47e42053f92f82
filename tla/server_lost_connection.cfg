SPECIFICATION Spec
CONSTANTS
  Kinds = {"tcp", "udp"}
  MaxConns = 2
  Fds = {1, 2}
  Buffers = {b1, b2}
  NoBuffer = NoBuffer
  PeekCount = 2
INVARIANT NoConnectionLost
CHECK_DEADLOCK FALSE
