SPECIFICATION FairSpec
CONSTANTS
  Hart = {0, 1, 2}
  Loads <- BothLoads
  U32Bits = 32
  FenceMasks <- HartTwo
  MaxCalls <- TwoCallers
CHECK_DEADLOCK FALSE
INVARIANTS TypeOK OneColdBoot WarmAfterCold NothingIsWiped HaltsArrive
PROPERTIES EveryoneBoots AllStop HaltsStay
