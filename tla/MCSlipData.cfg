SPECIFICATION Spec
CONSTANTS
  Ids <- TheIds
  SLIP_SOCK_MAX = 1
  MEMBLOCK_SIZE = 12
  Payloads <- ThePayloads
  Writes <- TheWrites
  Sizes = {1, 3}
  Errors <- TheErrors
  MaxFrames = 4
  MaxDamaged = 1
  MaxOut = 2
INVARIANTS AcceptedWereSent SentIsWhatWasWritten
PROPERTIES IsByteStream
CHECK_DEADLOCK FALSE
