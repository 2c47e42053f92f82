SPECIFICATION FairSpec
CONSTANTS
  Callers = {c1, c2, c3, c4}
  BuffersCount = 3
  ArrayCallers = {c4}
  ArraySize = 3
  Sizes <- SingleOrArray
  MaxCalls = 2
INVARIANTS
  TypeOK
  PoolIntegrity
  NoLostWakeup
  ParkedOnce
PROPERTIES
  EveryCallServed
  OwnershipSpec
CHECK_DEADLOCK FALSE
