SPECIFICATION FairSpec
CONSTANTS
  PlicSource <- AllSources
  UartDepth = 3
  MaxNest = 2
INVARIANTS TypeOK 
PROPERTIES ContextUnlessNested EventServed
