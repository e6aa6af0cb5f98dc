SPECIFICATION FairSpec
CONSTANTS
  t1 = t1
  t2 = t2
  r1 = r1
  none = none
  Threads <- OneThread
  NoThread = none
  Ops <- BackupOnly
  Restores <- OneRestore
  NoRestore = none
  Faults <- StopTimeout
  InitContainers <- RunningOnly
  MaxChildren = 2
  MaxCrashes = 0
PROPERTY NeverLeftStopped
