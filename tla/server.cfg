SPECIFICATION FairSpec
CONSTANTS
  Kinds = {"tcp", "udp"}
  MaxConns = 2
  Fds = {1, 2}
  Buffers = {b1, b2}
  NoBuffer = NoBuffer
  PeekCount = 2
INVARIANTS TypeOK CompletionsFindTheirChannel NeverDeaf ServerOutlivesConnections
PROPERTIES CloseEnds
CHECK_DEADLOCK FALSE
