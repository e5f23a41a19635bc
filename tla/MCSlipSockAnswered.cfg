SPECIFICATION AnsweredSpec
CONSTANTS
  Blocks = {b1, b2}
  Sockets = {k1}
  Ids = {i1, i2}
  Clients = {t1}
  MAX_CONNECTIONS = 1
  MAX_READ = 2
  Sends = {"Data"}
  NONE = NONE
PROPERTIES RecvReturns OfferedIsAccepted
CHECK_DEADLOCK FALSE
