SPECIFICATION SlackSpec
CONSTANTS
  h1 = h1
  h2 = h2
  C1 = C1
  U1 = U1
  Requests <- TwoRequests
  Channels <- OneChannel
  Recipients <- OneRecipient
  Gates <- OpenOrNot
  MaxRows = 3
  MaxFaults = 1
  a1 = a1
  a2 = a2
  c1 = c1
  c2 = c2
  w1 = w1
  w2 = w2
  Accounts <- TheAccounts
  KnownChannels <- TheChannels
  Workers <- TheWorkers
  Convention <- TheConvention
  Listed <- TheListed
  Budget = 1
  MaxEvents <- TheBounds
CHECK_DEADLOCK FALSE
SYMMETRY SlackSymmetry
INVARIANTS
  SendInv
  MappingInv
PROPERTIES
  SettledStaysSettled
  RowsStaySettled
