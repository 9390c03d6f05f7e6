SPECIFICATION Spec
CONSTANTS
  r1 = r1
  r2 = r2
  e = e
  look = look
  NoTask = NoTask
  NoRun = NoRun
  NoKey = NoKey
  InFlight = InFlight
  Runs = {r1}
  EffectTools = {e}
  PureTools = {look}
  ModelCalls = {}
  CapTools = {e, look}
  Covers <- CoversTool
  Siblings <- Apart
  Scopes = {"once"}
  InputKeys = {}
  RestartRuns = {r1}
  Group = {r1}
  GroupLimit = 1
  Rank <- Rank1
  MaxSteps = 2
  Tasks = {t1, t2}
  GlobalConcurrency = 2
  PolicyEffects <- AskFirst
  DeadlineRuns = {}
  MaxControls = 2
  MaxStops = 0
  MaxDetached = 1
INVARIANT TypeOK
INVARIANT EffectOnce
INVARIANT Authority
PROPERTY UncertainHeld
SYMMETRY TaskSymmetry
CHECK_DEADLOCK FALSE
