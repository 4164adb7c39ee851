SPECIFICATION Spec
CONSTANTS
  NRoots              = 2
  IMM                 = IMM
  NoReq               = NoReq
  StressModes         = {FALSE}
  LeafSizes           <- MCLeafSizes
  CellSize            = 24
  HeaderSize          = 16
  PointerSize         = 8
  MarkStackSize       = 6
  TENURING_THRESHOLD  = 2
  NERSARY_SIZE_RATIO  = 2
  REMEMBERED_SET_SIZE = 1
  TenuredRedefined    = TRUE
  HeapSize            = 368
INVARIANTS
  NoDangling
