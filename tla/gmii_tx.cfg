SPECIFICATION FairSpec
CONSTANTS
  PKT_WORDS = 8
  PKT_SAFE_WORDS = 2
  STAT_WORDS = 2
  STAT_SAFE_WORDS = 1
  MIN_LAST = 10
  NoWord <- MCNoWord
  READ_USED_WORDS = 2
  NUM_WORDS = 8
  FULL_WORDS = 4
  RD_SYNC = 4
  WR_SYNC = 4
  EDGES = 3
  SPEEDS = {TRUE, FALSE}
  PACKETS <- MCPackets
  MAX_PACKETS = 2
  MAX_CUTS = 1
INVARIANTS
  FrameIsPacket
  NoUnderrun
PROPERTIES
  PacketsSent
