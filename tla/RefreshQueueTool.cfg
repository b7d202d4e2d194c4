CONSTANTS
  w1 = w1
  w2 = w2
  t1 = t1
  c1 = c1
  c2 = c2
  Workers <- OneWorker
  Tools <- OneTool
  Clients <- OneClient
  MaxJobs = 2
  MaxRuns = 3
  Retain = 1
  MaxCrashes = 1
  LongRuns = FALSE
SPECIFICATION Spec
CHECK_DEADLOCK FALSE
INVARIANTS
  SuccessIsPublished
  OneJobPerRun
