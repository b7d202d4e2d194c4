SPECIFICATION DataSpec
CONSTANTS
  A = A
  B = B
  S1 = S1
  S2 = S2
  T1 = T1
  T2 = T2
  Accounts <- TwoAccounts
  Enrichable <- OneAccount
  Adapters <- AllAdapters
  MaxRuns = 2
  Retain = 1
  Scripters <- TwoScripters
  Tenants <- TwoTenants
  Rotating <- OneTenant
  ForcedSources <- OneEditor
  MaxClients = 2
  MaxConsents = 2
  MaxUses = 1
  MaxAccidents = 1
  Window = 1
  KeptRuns = 2
  MaxValue = 2
  MaxDay = 2
  MaxStarts = 3
CHECK_DEADLOCK FALSE
INVARIANTS
  RunsInv
  TokenInv
  LoadInv
PROPERTIES
  FreshnessAdvances
  BookIsKept
  ServedSurvives
