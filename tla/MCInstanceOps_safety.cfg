SPECIFICATION Spec
CONSTANTS
  t1 = t1
  t2 = t2
  r1 = r1
  none = none
  Threads <- TwoThreads
  NoThread = none
  Ops <- Everything
  Restores <- OneRestore
  NoRestore = none
  Faults <- AllFaults
  InitContainers <- AnyContainers
  MaxChildren = 2
  MaxCrashes = 1
SYMMETRY ThreadSymmetry
INVARIANTS
  TypeOK
  OneOperationAtATime
  NoStrandedLock
  HandoffKeepsRenewalOut
  RenewalStandsOff
  SafetyPointerSurvives
  ColdSnapshotQuiescent
  OverwriteQuiescentIfWhole
  AbortTearsDown
  DecommissionSticks
