SPECIFICATION FairSpec
CONSTANTS
  AddrSpace = 16
  PageSize = 4
  FlushLimit = 4
  Asids = {0}
  Hart = {0, 1}
  FifoEntries = 1
  MaxCalls <- TwiceEach
  TlbMasks <- EveryMask
  SmodeMasks <- EveryMask
  Requests <- RingRequests
CHECK_DEADLOCK FALSE
INVARIANTS NoSilentEvent ShootdownComplete
PROPERTIES SmodeDelivered
