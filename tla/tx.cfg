SPECIFICATION FairSpec
CONSTANTS
  BYTE_NUM = 4
  BYTECOUNT_MOD = 64
  DESC_FIFO_DEPTH = 2
  TX_FIFO_DEPTH = 5
  TX_MM_IF_MAX_PENDING_COUNT = 2
  UNALIGNED_ACCESS_ENABLE = {FALSE, TRUE}
  ADDRESSES = {4, 6}
  LENGTHS = {1, 4, 15, 18}
INVARIANTS
  AnswersAreKept
  StreamCarriesBuffer
  ReadsInsideBuffer
PROPERTIES
  DescriptorsFinish
