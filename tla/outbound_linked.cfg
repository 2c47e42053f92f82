SPECIFICATION Spec
CONSTANTS
  Buffers = {b1, b2, b3}
  Singles = {w1, w2}
  Batches = {m1, m2}
  BatchSize = 2
  Linked = TRUE
  Handlers = {{"done", "error"}}
INVARIANTS
  TypeOK
  NoFalseReport
  NoLostReport
CHECK_DEADLOCK FALSE
