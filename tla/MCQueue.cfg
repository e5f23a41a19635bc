SPECIFICATION Spec
CONSTANTS
  QUEUE_SIZE = 2
  INDEX_MOD = 4
  Blocks = {b1, b2}
  Producers = {p1, p2}
  Consumers = {c1, c2}
  NULL = NULL
SYMMETRY Symmetric
INVARIANTS AlwaysRoom
PROPERTIES IsFifo
CHECK_DEADLOCK FALSE
