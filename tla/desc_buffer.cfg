SPECIFICATION BufferSpec
CONSTANTS
  ADDRESSES = {a1, a2}
  CONTROLS = {c1, c2}
  Zero = a1
  DESC_FIFO_DEPTH = 3
  NoDescriptor = NoDescriptor
INVARIANTS
  HalvesAgree
PROPERTIES
  IsDescriptorQueue
