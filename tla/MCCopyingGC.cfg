SPECIFICATION FairSpec
CONSTANTS
  NRoots     = 2
  IMM        = IMM
  NoReq      = NoReq
  StressModes = {TRUE, FALSE}
  LeafSizes  <- MCLeafSizes
  CellSize   = 24
  HeaderSize = 16
  HeapSize   = 216
INVARIANTS
  NoDangling
  SpacesRespected
  ExhaustedOnlyWhenFull
  IInv
PROPERTIES
  Answered
  ImplementsObjectMemory
