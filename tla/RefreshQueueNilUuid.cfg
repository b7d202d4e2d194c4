CONSTANTS
  w1 = w1
  w2 = w2
  t1 = t1
  c1 = c1
  c2 = c2
  Workers <- OneWorker
  Tools <- NoTool
  Clients <- OneClient
  MaxJobs = 1
  MaxRuns = 1
  Retain = 1
  MaxCrashes = 0
  LongRuns = FALSE
SPECIFICATION Spec
CHECK_DEADLOCK FALSE
INVARIANTS
  RunningIsOwned
