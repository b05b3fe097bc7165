SPECIFICATION FairSpec
CONSTANTS
  AddrSpace = 16
  PageSize = 4
  FlushLimit = 4
  Asids = {0}
  Hart = {0, 1, 2}
  FifoEntries = 1
  MaxCalls <- OnceEach
  TlbMasks <- OneOfTwo
  SmodeMasks <- NoMask
  Requests <- RingRequests
CHECK_DEADLOCK FALSE
INVARIANTS TypeOK
PROPERTIES CallsReturn
