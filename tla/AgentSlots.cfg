SPECIFICATION Spec
CONSTANTS
  r1 = r1
  r2 = r2
  e = e
  look = look
  NoTask = NoTask
  NoRun = NoRun
  NoKey = NoKey
  InFlight = InFlight
  Runs = {r1, r2}
  EffectTools = {}
  PureTools = {}
  ModelCalls = {}
  CapTools = {}
  Covers <- Covers0
  Siblings <- Apart
  Scopes = {"once"}
  InputKeys = {q}
  RestartRuns = {r1}
  Group = {r1, r2}
  GroupLimit = 1
  Rank <- Rank2
  MaxSteps = 2
  Tasks = {t1, t2}
  GlobalConcurrency = 2
  PolicyEffects <- AskOrDeny
  DeadlineRuns = {r1}
  MaxControls = 1
  MaxStops = 1
  MaxDetached = 0
PROPERTY ImplementsLifecycle
INVARIANTS SlotBound WaitingHasPending
SYMMETRY TaskSymmetry
CHECK_DEADLOCK FALSE
