SPECIFICATION Spec
CONSTANTS
  Blocks = {b1, b2}
  Sockets = {k1}
  Ids = {i1, i2}
  Clients = {t1, t2}
  MAX_CONNECTIONS = 2
  MAX_READ = 1
  Sends = {"Data", "Unknown", "Disconnect"}
  NONE = NONE
SYMMETRY Symmetric
CONSTRAINT NoStaleHandle
INVARIANTS TypeOK PermitsConserved  ClientKeepsItsSocket BlocksHaveOneUser NoLostWakeup PeerKnows OnlyLatePushesLeak
CHECK_DEADLOCK FALSE
