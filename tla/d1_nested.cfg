SPECIFICATION FairSpec
CONSTANTS
  PlicSource <- UartOnly
  UartDepth = 2
  MaxNest = 2
CHECK_DEADLOCK FALSE
PROPERTIES ContextRestored
