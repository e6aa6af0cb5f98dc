SPECIFICATION FairPassSpec
CONSTANTS
  N = 5
  Fleets <- BlindFleets
  StreakAbort = 2
  Cap = 2
  Budget = 2
  Parts = 2
  PassFaults <- Everything
  MaxTroubles = 1
  MaxAges = 1
PROPERTIES
  DueRenewed
