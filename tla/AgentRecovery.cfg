SPECIFICATION FairSpec
CONSTANTS
  r1 = r1
  r2 = r2
  e = e
  look = look
  NoTask = NoTask
  NoRun = NoRun
  NoKey = NoKey
  InFlight = InFlight
  Runs = {r1}
  EffectTools = {e}
  PureTools = {}
  ModelCalls = {m}
  CapTools = {}
  Covers <- Covers0
  Siblings <- Apart
  Scopes = {"once"}
  InputKeys = {q}
  RestartRuns = {r1}
  Group = {r1}
  GroupLimit = 1
  Rank <- Rank1
  MaxSteps = 2
  Tasks = {t1, t2}
  GlobalConcurrency = 2
  PolicyEffects <- AllowOrAsk
  DeadlineRuns = {r1}
  MaxControls = 1
  MaxStops = 1
  MaxDetached = 0
INVARIANTS EffectOnce DrivenOnce
PROPERTY DeadlineEnds
CHECK_DEADLOCK FALSE
