SPECIFICATION Spec
CONSTANTS
  t1 = t1
  t2 = t2
  r1 = r1
  none = none
  Threads <- OneThread
  NoThread = none
  Ops <- StartAndDecommission
  Restores <- OneRestore
  NoRestore = none
  Faults <- NoFault
  InitContainers <- AnyContainers
  MaxChildren = 2
  MaxCrashes = 0
INVARIANT DecommissionHolds
