CONSTANTS
  w1 = w1
  w2 = w2
  t1 = t1
  c1 = c1
  c2 = c2
  Workers <- OneWorker
  Tools <- NoTool
  Clients <- TwoClients
  MaxJobs = 3
  MaxRuns = 2
  Retain = 1
  MaxCrashes = 1
  LongRuns = FALSE
SPECIFICATION FairSpec
CHECK_DEADLOCK FALSE
INVARIANTS
  OverlapBoundsActive
  PruneNotRefused
PROPERTIES
  WakingWorkerClaims
