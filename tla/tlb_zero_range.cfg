SPECIFICATION FairSpec
CONSTANTS
  AddrSpace = 16
  PageSize = 4
  FlushLimit = 4
  Asids = {0, 1}
  Hart = {0, 1, 2}
  FifoEntries = 3
  MaxCalls <- TwoCallers
  TlbMasks <- ServerOnly
  SmodeMasks <- NoMask
  Requests <- WrapRequests
CHECK_DEADLOCK FALSE
PROPERTIES MergeKeepsRanges
