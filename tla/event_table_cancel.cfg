SPECIFICATION TableSpec
CONSTANTS
  Fds = {f1, f2}
  Ops = {"read", "write", "accept"}
  Hash <- OpValues
  Timed <- TimedReads
  Unused = Unused
  Primes <- SmallPrimes
  MinBatch = 4
  BatchScale = 262144
  BuffersCount = 2
PROPERTY TimeoutsSurvive
