SPECIFICATION Spec
CONSTANTS
  NRoots        = 2
  IMM           = IMM
  NoReq         = NoReq
  StressModes   = {FALSE}
  LeafSizes     <- MCLeafSizes
  CellSize      = 24
  HeaderSize    = 8
  FreeChunkSize = 16
  HeapSize      = 136
  MaxDrift      = 1
INVARIANTS
  HeapSound
  CountsExact
  ReleasedOnce
  OnlyForgottenLeak
PROPERTIES
  ReleaseAdvances
  ImplementsObjectMemory
