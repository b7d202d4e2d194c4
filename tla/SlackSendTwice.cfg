SPECIFICATION Spec
CONSTANTS
  h1 = h1
  h2 = h2
  C1 = C1
  U1 = U1
  Requests <- TwoRequests
  Channels <- OneChannel
  Recipients <- OneRecipient
  Gates <- OpenOnly
  MaxRows = 3
  MaxFaults = 0
CHECK_DEADLOCK FALSE
INVARIANT SentOnce
