SPECIFICATION Spec
CONSTANTS
  Blocks = {b1, b2}
  SLIP_RX_MIN_FRAME = 2
  MEMBLOCK_SIZE = 2
  LineBytes = {"ESC", "ESC_END", "ESC_ESC"}
  MaxRaw = 4
  NONE = NONE
SYMMETRY Symmetric
INVARIANTS OneOwner CountIsPosition FrameIsAnnounced FramesAreWhatWasHeard
PROPERTIES FittingFrameIsQueued
