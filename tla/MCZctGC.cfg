SPECIFICATION FairSpec
CONSTANTS
  NRoots        = 3
  IMM           = IMM
  NoReq         = NoReq
  StressModes   = {FALSE}
  LeafSizes     <- MCLeafSizes
  CellSize      = 24
  HeaderSize    = 12
  FreeChunkSize = 16
  ZCT_SIZE      = 2
  HeapSize      = 240
INVARIANTS
  CountsExact
  OnlyGarbageReclaimed
PROPERTIES
  EndsOrHangs
