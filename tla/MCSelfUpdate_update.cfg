SPECIFICATION FairSpec
CONSTANTS
  r1 = r1
  h1 = h1
  none = none
  Remotes <- OneRemote
  Hosts <- OneHost
  NoRun = none
  NumServices = 2
  Greffer = 2
  NumVersions = 2
  RemoteTargets <- LatestOrTwo
  HostTargets <- EveryTag
  InitPins <- LatestOrPinned
  InitStacks <- Whole
  Faults <- SharedLock
INVARIANTS
  AutoNeverBackwards
  RemoteRollbackRestores
  HostRollbackRestores
  UngatedStaysOut
PROPERTIES
  UpdatesEnd
CHECK_DEADLOCK FALSE
