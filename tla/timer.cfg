SPECIFICATION FairSpec
CONSTANTS
  Hart = {0, 1}
  Half = 3
  Deadlines <- SomeDeadlines
  HasEventStop = {TRUE, FALSE}
  MaxTime = 5
  MaxCalls <- TwoCallers
CHECK_DEADLOCK FALSE
INVARIANTS TypeOK NeverEarly AwaitedOrSignalled
PROPERTIES ReadIsCurrent DeadlineSignalled
