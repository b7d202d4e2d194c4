SPECIFICATION PagesSpec
CONSTANTS
  Views = {1, 2}
  Pages = {1, 2}
  MaxActs = 4
  Customers = {"x", "y"}
  MaxComposeActs = 7
  BoardCards = {"x", "y"}
  BoardStatuses = {"open", "done"}
  MaxChanges = 4
  Components = {ca, cb}
  Jobs = {j1, j2}
  MaxAsks = 2
  GiveUpAfter = 1
  GoneAnswer = "failure"
CHECK_DEADLOCK FALSE
INVARIANTS
  PageInv
  ComposeInv
  BoardInv
  WatchInv
PROPERTIES
  ToldOnce
  SubscriberHears
