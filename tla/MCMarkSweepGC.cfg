SPECIFICATION Spec
CONSTANTS
  NRoots        = 2
  IMM           = IMM
  NoReq         = NoReq
  StressModes   = {TRUE, FALSE}
  LeafSizes     <- MCLeafSizes
  CellSize      = 24
  HeaderSize    = 8
  PointerSize   = 8
  MarkStackSize = 1
  FreeChunkSize = 16
  HeapSize      = 80
INVARIANTS
  HeapSound
  MarksClear
  LostChunksReturn
  OverflowOnlyBeyondStack
  ExhaustedOnlyWhenFragmented
PROPERTIES
  ImplementsObjectMemory
