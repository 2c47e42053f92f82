SPECIFICATION Spec
CONSTANTS
  w1 = w1
  w2 = w2
  Workers = {w1, w2}
  Shutdowns = {1}
  Opens <- OpensChannels
INVARIANTS TypeOK NothingUsesAFreedWorker EndMeansDestroyed
PROPERTIES ShutdownEnds
CHECK_DEADLOCK FALSE
