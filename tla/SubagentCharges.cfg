SPECIFICATION FairSpec
CONSTANTS
  c1 = c1
  c2 = c2
  Root = Root
  Children = {c1}
  GlobalConcurrency = 2
  MaxActive = 2
  RootTokens = 5
  ParentReserve = 1
  ChildTokens = 3
  InputBound = 1
  MaxOutput = 2
  MaxAnswer = 4
  MaxCalls = 1
  MaxWaits = 0
  MaxCrashes = 1
  MaxPauses = 0
INVARIANT BudgetHeld
PROPERTY ChargesSettle
CHECK_DEADLOCK FALSE
