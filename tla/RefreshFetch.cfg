CONSTANTS
  gainsight = gainsight
  salesforce = salesforce
  cerebro = cerebro
  mcp = mcp
  Sweep <- OneSweep
  Plain <- OnePlain
  Pair <- ThePair
  Work = 1
  MaxInflight = 1
  MaxTries = 2
  MaxFlushes = 1
SPECIFICATION FairSpec
CHECK_DEADLOCK FALSE
INVARIANTS
  FetchInv
PROPERTIES
  NobodyWaitsForever
