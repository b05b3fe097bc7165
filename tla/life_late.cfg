SPECIFICATION FairSpec
CONSTANTS
  Hart = {0, 1, 2}
  Loads <- BothLoads
  U32Bits = 32
  FenceMasks <- NoMask
  MaxCalls <- TwoCallers
CHECK_DEADLOCK FALSE
PROPERTIES HaltReachesAvailable
