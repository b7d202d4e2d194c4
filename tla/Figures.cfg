SPECIFICATION FiguresSpec
CONSTANTS
  Scanners = {1}
  Plays = {"p"}
  Subjects = {"a"}
  DedupWindow = 1
  Given = {"done", "open"}
  MaxDay = 3
  MaxLines = 3
  MaxUpdates = 3
  Opps = {1, 2}
  StartAccounts <- TheAccounts
  AccountValues <- TheValues
  OppValues <- TheOppValues
  MaxEdits = 2
  Deals = {1, 2, 3}
  Holder <- TheHolder
  Books <- TheBooks
  DealValues <- TheDealValues
  HealthValues <- TheHealthValues
  ListLength = 1
  ListedRed = 1
  ListedYellow = 1
  ListedGaps = 2
  MaxMoves = 2
  Scopes <- TheScopes
  AsOfDays <- TheDays
  Ahead = 4
  Width = 3
  History <- TheHistory
  Links <- TheLinks
  MaxClicks = 3
  EndOfTime <- NextQuarter
  Today <- TheToday
  Periods <- ThePeriods
  CseOf <- TheCses
  MaxTouches = 3
  Folio <- TheFolio
  Pursuits <- TheOpps
  LoadedQuarters <- TheQuarters
  Wanted <- TheChoices
  MaxGestures = 3
  Customers <- TheCustomers
  NameOf <- TheNames
  DeadId <- TheDead
  Hidden = {"C2"}
  Extensions <- TheExtensions
  Apart <- TheDistances
  CustNames = {"cust-acme", "cust-acme-corp", "cust-acne", "cust-bet", "cust-beta"}
  HarFiles <- TheHarFiles
  SweepRuns <- TheSweeps
  EnoughChannels = 3
  MaxHarDepth = 8
  MaxImports = 4
  Tickets <- TheTickets
  ColorOf <- TheColors
  Teams <- TheTeams
  Corrections <- TheCorrections
  MaxSteps = 3
  Portfolio <- ThePortfolio
  Sightings <- TheSightings
  WeekEnd = 7
  ListedAccounts = 3
  EnoughMotion = 3
  FewGaps = 0
  MaxWeekSteps = 3
CHECK_DEADLOCK FALSE
INVARIANTS
  LogInv
  FiguresInv
  ScreensInv
PROPERTIES
  SignalsFollow
  OverrideDecides
