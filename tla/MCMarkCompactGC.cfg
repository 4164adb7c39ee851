SPECIFICATION Spec
CONSTANTS
  NRoots        = 2
  IMM           = IMM
  NoReq         = NoReq
  StressModes   = {FALSE}
  LeafSizes     <- MCLeafSizes
  CellSize      = 24
  HeaderSize    = 24
  PointerSize   = 8
  MarkStackSize = 2
  HeapSize      = 152
INVARIANTS
  HeapSound
  SlidesInOrder
  ExhaustedOnlyWhenFull
PROPERTIES
  ImplementsObjectMemory
