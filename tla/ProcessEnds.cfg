SPECIFICATION FairSpec
CONSTANTS
  p1 = p1  r1 = r1
  Procs = {p1}
  Runs = {r1}
  RunOf <- OneRun
  SessionLimit = 1
  Forking = {p1}
  Cancellable = {p1}
  EndingRuns = {r1}
  MaxShutdowns = 1
  MaxCrashes = 1
INVARIANT RunningIsManaged
PROPERTIES FirstVerdictStands EveryChildEnds
CHECK_DEADLOCK FALSE
