SPECIFICATION ServerSpec
CONSTANTS
  MaxJobs = 3
  MaxConcurrent = 2
  MaxStored = 2
  P1 = P1
  R1 = R1
  R2 = R2
  Accounts <- ThreeAccounts
  Wanted = 1
  Posts <- OnePost
  Refreshers <- TwoRefreshers
  Batch = 2
  Width = 2
  MaxBulkJobs = 1
  MaxFaults = 2
  SerialChecks = TRUE
  MaxSnapshotJobs = 2
  MaxStoredSnapshotJobs = 1
  Moments <- FridaysAndChanges
  Forward <- ClockGoesForward
  Back <- ClockGoesBack
  EodHour = 17
  MaxData = 2
  MaxSnapshotFaults = 1
  Quarters <- TwoQuarters
  Today = 1
  StartOf <- SameDay
  FirstDay = 1
  Amounts = 1
  MaxAsked = 3
  ChatWidth = 2
  MaxRefreshes = 2
  MaxClicks = 3
CHECK_DEADLOCK FALSE
INVARIANTS
  CtaJobsInv
  PlansInv
  WeeklyInv
  ForecastRunInv
PROPERTIES
  EndsAreFinal
  JobsEnd
