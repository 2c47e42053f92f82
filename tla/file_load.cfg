SPECIFICATION FairSpec
CONSTANTS
  PoolSize = 3
  BufferSize = 2
  Sizes = {0, 1, 2, 3, 4, 5, 7}
  Writes = {w1}
  Blocks = {1, 2, 3}
  Offsets = {0, 1}
  OffsetLimit = 64
INVARIANTS TypeOK LoadReturnsFile BuffersComeBack
PROPERTIES CallsEnd
CHECK_DEADLOCK FALSE
