SPECIFICATION Spec
CONSTANTS
  Blocks = {b1, b2, b3}
  Sockets = {k1}
  Ids = {i1, i2}
  Clients = {t1, t2}
  MAX_CONNECTIONS = 2
  MAX_READ = 1
  Sends = {"Data", "Disconnect"}
  NONE = NONE
SYMMETRY Symmetric
INVARIANTS ClientKeepsItsSocket
CHECK_DEADLOCK FALSE
