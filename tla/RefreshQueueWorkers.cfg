CONSTANTS
  w1 = w1
  w2 = w2
  t1 = t1
  c1 = c1
  c2 = c2
  Workers <- TwoWorkers
  Tools <- NoTool
  Clients <- TwoClients
  MaxJobs = 2
  MaxRuns = 2
  Retain = 1
  MaxCrashes = 0
  LongRuns = TRUE
SPECIFICATION Spec
CHECK_DEADLOCK FALSE
SYMMETRY Symmetry
INVARIANTS
  TypeOK
  OneRunnerPerJob
  LiveJobShowsRunning
  ClaimedInOrder
PROPERTIES
  FinishedStaysFinished
  ImplementsWorkQueue
