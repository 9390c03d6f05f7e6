SPECIFICATION SchedulerSpec
CONSTANTS
  j1 = j1  j2 = j2  j3 = j3
  w1 = w1  w2 = w2  a1 = a1  a2 = a2  p1 = p1
  q1 = q1  q2 = q2  q3 = q3
  NoActor = NoActor  NoApp = NoApp  NoTimeout = NoTimeout
  Jobs = {j1, j2, j3}
  Workers = {w1, w2}
  Job <- PatientJobs
  Ranks = {1, 2, 3}
  Actors = {a1, a2}
  Apps = {p1}
  Requests = {q1, q2, q3}
  MaxPinned = 0
  Headrooms = {2}
  MaxHeavy = 1
  WorkerSlots <- Slots1
  MaxActivePerActor = 1
  MaxQueueDepth = 4
  MaxQueuedPerActor = 2
  MaxQueuedPerApp = 2
  AgingInterval = 1
  GateReasons = {"memory_pressure"}
  MaxTime = 0
PROPERTY WaitEnds
CHECK_DEADLOCK FALSE
