SPECIFICATION FairSpec
CONSTANTS
  Nil = Nil
  Version <- SixVersions
  Length <- SomeLengths
  Slots <- SomeSlots
  Items <- SomeItems
  Stores <- SomeStores
  Stale <- SomeStale
  Starts <- TwoStarts
  NextBlock = 4
  PackageBase = 1090519040
  HeapBase = 1082130432
  Word = 1073741824
  ProbsSizes <- SomeProbs
CHECK_DEADLOCK FALSE
INVARIANTS TypeOK PackageIntact BootsWhatIsStored IntactCopyFound EnteredWhole BlocksApart PackageKept
PROPERTIES Ends
