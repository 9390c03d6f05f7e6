SPECIFICATION FairSpec
CONSTANTS
  p = p
  c = c
  g = g
  NoRun = NoRun
  Runs = {p, c, g}
  ParentOf <- MCParentOf
  Timeout <- MCTimeout
  Askers = {g}
  CancelRuns = {c}
  GlobalConcurrency = 2
  MaxChildRuns = 4
  MaxDelegationDepth = 2
  Horizon = 2
  LastAnswer = 0
  MaxCancels = 1
INVARIANT NoLostWake
PROPERTY DelegationReturns
CHECK_DEADLOCK FALSE
