SPECIFICATION FairIrqSpec
CONSTANTS
  RX_RESPONSE_FIFO_DEPTH = 3
  SEQUENCE_MOD = 4
  DISABLE_IRQ = {FALSE}
INVARIANTS
  NeverForgotten
  NoEmptyRead
PROPERTIES
  IrqsAreServed
