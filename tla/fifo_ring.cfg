SPECIFICATION FairSpec
CONSTANTS
  Proc = {p1, p2}
  Data <- MCData
  NumEntries = 3
  Callback <- MCCallback
  Rewrite <- MCRewrite
INVARIANTS TypeOK MutualExclusion LiveSlotsWritten
PROPERTIES ImplementsQueue LockReleased
