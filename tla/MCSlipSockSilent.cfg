SPECIFICATION FairSpec
CONSTANTS
  Blocks = {b1, b2, b3}
  Sockets = {k1}
  Ids = {i1}
  Clients = {t1}
  MAX_CONNECTIONS = 2
  MAX_READ = 1
  Sends = {}
  NONE = NONE
PROPERTIES RecvReturns
CHECK_DEADLOCK FALSE
