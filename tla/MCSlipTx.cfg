SPECIFICATION FairSpec
CONSTANTS
  Blocks = {b1, b2}
  Senders = {s1, s2}
  Frames <- MCFrames
  MaxSends = 4
  NONE = NONE
INVARIANTS OneOwner OneOwnerPerBlock LineIsEncoding
PROPERTIES NoByteReplaced EverySentBlockIsFreed
CHECK_DEADLOCK FALSE
