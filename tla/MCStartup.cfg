SPECIFICATION FairSpec
CONSTANTS
  Blocks = {b1, b2}
  Sockets = {k1}
  MAX_CONNECTIONS = 2
  MayFail <- Anything
  NONE = NONE
INVARIANTS CrashNeedsFailure BlocksArePlaced PermitsAreKept SocketsArePlaced
PROPERTIES FramesAreTaken
CHECK_DEADLOCK FALSE
