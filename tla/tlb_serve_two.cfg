SPECIFICATION FairSpec
CONSTANTS
  AddrSpace = 16
  PageSize = 4
  FlushLimit = 4
  Asids = {0, 1}
  Hart = {0, 1, 2}
  FifoEntries = 3
  MaxCalls <- OnceEach
  TlbMasks <- EveryMask
  SmodeMasks <- NoMask
  Requests <- RingRequests
CHECK_DEADLOCK FALSE
PROPERTIES ServesOnePerTurn
