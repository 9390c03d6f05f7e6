SPECIFICATION SchedulerSafety
CONSTANTS
  j1 = j1  j2 = j2  j3 = j3
  w1 = w1  w2 = w2  a1 = a1  a2 = a2  p1 = p1
  q1 = q1  q2 = q2  q3 = q3
  NoActor = NoActor  NoApp = NoApp  NoTimeout = NoTimeout
  Jobs = {j1, j2, j3}
  Workers = {w1, w2}
  Job <- RaceJobs
  Ranks = {0, 1, 3}
  Actors = {a1, a2}
  Apps = {p1}
  Requests = {q1, q2}
  MaxPinned = 1
  Headrooms = {1, 3}
  MaxHeavy = 2
  WorkerSlots <- Slots1
  MaxActivePerActor = 1
  MaxQueueDepth = 2
  MaxQueuedPerActor = 2
  MaxQueuedPerApp = 1
  AgingInterval = 1
  GateReasons = {}
  MaxTime = 1
INVARIANTS Owned SlotLimits Accounting EvictedIsIdle
CHECK_DEADLOCK FALSE
