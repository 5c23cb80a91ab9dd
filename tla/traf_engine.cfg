SPECIFICATION FairSpec
CONSTANTS
  RX_WORDS = 10
  RX_SAFE_WORDS = 2
  STAT_WORDS = 2
  CPU_WORDS = 10
  CPU_SAFE_WORDS = 2
  FRM_LEN_MIN = 16
  FRM_LEN_MAX = 47
  MTU = 45
  NIC_MODE = 2
  PACKETS <- MCPackets
  MIN_EOP_GAP = 6
INVARIANTS
  FifosNotOverrun
  CpuGetsPackets
PROPERTIES
  PacketsAreJudged
  PacketsLeave
