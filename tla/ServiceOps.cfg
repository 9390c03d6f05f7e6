SPECIFICATION FairSpec
CONSTANTS
  o1 = o1  o2 = o2  o3 = o3  o4 = o4  o5 = o5
  Ops = {o1, o2, o3, o4, o5}
  Kind <- MCKind
  MaxRestarts = 1
  MaxGen = 3
INVARIANTS Tracked RestartBudget
PROPERTIES EvictsTheIdle DrainsFirst CrashAnswered
CHECK_DEADLOCK FALSE
