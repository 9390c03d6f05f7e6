SPECIFICATION FairSpec
CONSTANTS
  c1 = c1
  c2 = c2
  Root = Root
  Children = {c1, c2}
  GlobalConcurrency = 1
  MaxActive = 2
  RootTokens = 8
  ParentReserve = 2
  ChildTokens = 4
  InputBound = 1
  MaxOutput = 2
  MaxAnswer = 0
  MaxCalls = 0
  MaxWaits = 1
  MaxCrashes = 1
  MaxPauses = 1
INVARIANT WaitPaired
PROPERTIES WaitEnds ChildrenEnd
CHECK_DEADLOCK FALSE
