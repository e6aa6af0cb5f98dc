SPECIFICATION FairSpec
CONSTANTS
  t1 = t1
  t2 = t2
  r1 = r1
  none = none
  Threads <- TwoThreads
  NoThread = none
  Ops <- BackupsAndRenew
  Restores <- OneRestore
  NoRestore = none
  Faults <- ThreadOrStop
  InitContainers <- RunningOnly
  MaxChildren = 2
  MaxCrashes = 2
PROPERTIES
  RestartedUnlessLate
  LockAlwaysFreed
