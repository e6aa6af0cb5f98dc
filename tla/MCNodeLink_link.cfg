SPECIFICATION FirstSpec
CONSTANTS
  t1 = t1
  t2 = t2
  none = none
  Tokens <- TwoTokens
  NoToken = none
  Pinned = none
  Statuses <- UpAndDown
  Grace = 1
  Faults <- AllFaults
  MaxTroubles = 2
  MaxChanges = 2
INVARIANTS
  ParkedHasWaker
  OneRegistration
  BeatsWithStaged
  CapturedAtIsHonest
PROPERTIES
  RegistersAgain
  StatusDelivered
  DeadWorkerHealed
