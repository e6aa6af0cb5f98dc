SPECIFICATION FairSpec
CONSTANTS
  ReportAttempts = 2
  Faults <- AllFaults
  MaxMints = 2
  MaxCrashes = 1
INVARIANTS
  PendingIsOwed
  ConfirmedWasServed
PROPERTIES
  PendingResolved
