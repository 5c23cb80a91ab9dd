SPECIFICATION Spec
CONSTANTS
  BYTES_NUM = 2
  BYTECOUNT_MOD = 8
  DESC_FIFO_DEPTH = 2
  RX_RESPONSE_FIFO_DEPTH = 2
  ADDRESSES = {0, 4}
  LENGTHS = {2, 5}
  STOP_ON_ERROR = {FALSE}
  ERRORS = {FALSE}
  MAX_WORDS = 3
INVARIANTS
  EveryReportHasPacket
