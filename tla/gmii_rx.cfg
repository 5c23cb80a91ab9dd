SPECIFICATION FairSpec
CONSTANTS
  RX_IFG_SET = 5
  RX_MIN_LEN = 13
  RX_MAX_LEN = 22
  NUMWORDS = 3
  SAFE_WORDS = 1
  MAX_TICK_WITHOUT_READ = 1
  SPEEDS = {TRUE}
  MIN_GAP = 4
  PREAMBLE = 2
  FRAMES <- MCFrames
INVARIANTS
  TypeOK
  FrameIsCarried
  FifoNotOverrun
  BadCrcIsMarked
PROPERTIES
  PacketsAreWhole
  PacketsEnd
